---- MODULE Spec2Model ----
(***************************************************************************)
(* A model of the test-fixture generators of ply-visualizer                *)
(* (src/testfiles): the binary STL writer and its meshes, the ASCII STL     *)
(* generators, the PFM writer, the NPY/NPZ depth synthesizer, the PNG depth *)
(* images and the Open3D multi-format batch loops with their helpers.      *)
(*                                                                         *)
(* Numbers.  A Python float is modelled in thousandths: the integer m      *)
(* stands for the value m/1000.  struct.pack('<f', ..) is modelled by the  *)
(* IEEE-754 single-precision encoding of m/1000 (round to nearest, ties to *)
(* even), computed by long division, so that the bytes of the model are    *)
(* the bytes of the file.  numpy's float64 arithmetic (cross product,      *)
(* norm, square root) is computed in the same fixed point, rounded to the  *)
(* nearest thousandth.  A byte is an integer in 0..255 and a file is a     *)
(* sequence of bytes.                                                      *)
(***************************************************************************)
EXTENDS Integers, Sequences, FiniteSets, TLC

VARIABLES
    stlPc,        \* write_binary_stl: position in the function
    triangles,    \* write_binary_stl: argument `triangles`
    header,       \* write_binary_stl: argument `header` (code points)
    stlFile,      \* bytes written to `f` so far
    stlOpen,      \* whether the handle `f` is open
    stlIdx,       \* index of the triangle the loop is at (1-based)
    stlVtx,       \* number of vertices of that triangle already written
    pfmPc,        \* create_test_pfm: position in the function
    width,        \* create_test_pfm: argument `width`
    height,       \* create_test_pfm: argument `height`
    depths,       \* the array `depths`: depths[y][x], 0-based, thousandths
    pfmFile,      \* bytes written to `f` so far
    pfmOpen,      \* whether the handle `f` is open
    pfmRow,       \* number of rows the outer loop has finished
    pfmX,         \* the inner loop's x
    pfmOrder,     \* the indices <<y, x>> of the samples written, in order
    npyPc,        \* create_test_npy_files: position in the function
    depth_data,   \* the array `depth_data`: [y][x], 0-based
    disparity_data, \* the array `disparity_data`
    npyFiles,     \* the files np.save / np.savez have written, by name
    o3dPc,        \* generate_*_files: position in the function
    o3dFn,        \* which of the two functions was called
    o3dIdx,       \* the loop's position in the format table (1-based)
    nPoints,      \* P, the number of points of the argument `pcd`
    hasColors,    \* mesh.has_vertex_colors() of the argument `mesh`
    o3dFiles,     \* the files of output_dir: absent, partial or complete
    o3dNpy,       \* the shapes of the .npy arrays saved, in order
    o3dLog,       \* the lines printed, in order
    o3dAttempts,  \* the write calls made: format and outcome, in order
    mtlOpen,      \* whether create_mtl_file's handle `f` is open
    asciiPc,      \* create_malformed_stl.py: position in the generator
    asciiFn,      \* which of the three ASCII STL generators runs
    asciiFile,    \* the lines written to `f` so far
    asciiOpen,    \* whether the handle `f` is open
    facPc,        \* _choose_2d_factors / _choose_3d_factors: position
    facFn,        \* which of the two helpers was called
    facN,         \* the argument `n`
    facP1,        \* the local `p1`
    facP2,        \* the local `p2`
    facP3,        \* the local `p3`
    facRemaining, \* the local `remaining`
    facSteps,     \* the decrements the count-down loops have made
    sphPc,        \* create_subdivided_sphere: position in the function
    radius,       \* the argument `radius` (thousandths)
    subdivisions, \* the argument `subdivisions`
    sphVertices,  \* the list `vertices`; vertices[i] is sphVertices[i + 1]
    sphFaces,     \* the list `faces` of index triples (0-based indices)
    new_faces,    \* the list `new_faces` of the current round
    edge_vertices, \* the dict `edge_vertices`: edge key -> vertex index
    sphRound,     \* the rounds of `for _ in range(subdivisions)` finished
    sphFaceIdx,   \* the faces `for face in faces` has processed
    sphTriangles, \* the list `triangles` returned
    pngPc,        \* create_test_depth_png: position in the function
    depth_mm,     \* the array `depth_mm`: [y][x], 0-based
    disparity_raw, \* the array `disparity_raw`
    depth_m_scaled, \* the array `depth_m_scaled`
    depth_8bit,   \* the array `depth_8bit`
    depth_with_invalid, \* the array `depth_with_invalid`
    pngI,         \* the `i` of the loop over the invalid blocks
    pngJ,         \* the `j` of the loop over the invalid blocks
    pngFiles      \* the images saved, by file name

stlVars == <<stlPc, triangles, header, stlFile, stlOpen, stlIdx, stlVtx>>
pfmVars == <<pfmPc, width, height, depths, pfmFile, pfmOpen, pfmRow, pfmX,
             pfmOrder>>

npyVars == <<npyPc, depth_data, disparity_data, npyFiles>>

o3dVars == <<o3dPc, o3dFn, o3dIdx, nPoints, hasColors, o3dFiles, o3dNpy,
             o3dLog, o3dAttempts, mtlOpen>>

asciiVars == <<asciiPc, asciiFn, asciiFile, asciiOpen>>

facVars == <<facPc, facFn, facN, facP1, facP2, facP3, facRemaining, facSteps>>

sphVars == <<sphPc, radius, subdivisions, sphVertices, sphFaces, new_faces,
             edge_vertices, sphRound, sphFaceIdx, sphTriangles>>

pngVars == <<pngPc, depth_mm, disparity_raw, depth_m_scaled, depth_8bit,
             depth_with_invalid, pngI, pngJ, pngFiles>>

vars == <<stlVars, pfmVars, npyVars, o3dVars, asciiVars, facVars, sphVars,
          pngVars>>

\* What a script leaves alone: the state of the other scripts
notStl ==
    <<pfmVars, npyVars, o3dVars, asciiVars, facVars, sphVars, pngVars>>
notPfm ==
    <<stlVars, npyVars, o3dVars, asciiVars, facVars, sphVars, pngVars>>
notNpy ==
    <<stlVars, pfmVars, o3dVars, asciiVars, facVars, sphVars, pngVars>>
notO3d ==
    <<stlVars, pfmVars, npyVars, asciiVars, facVars, sphVars, pngVars>>
notAscii ==
    <<stlVars, pfmVars, npyVars, o3dVars, facVars, sphVars, pngVars>>
notFac ==
    <<stlVars, pfmVars, npyVars, o3dVars, asciiVars, sphVars, pngVars>>
notSph ==
    <<stlVars, pfmVars, npyVars, o3dVars, asciiVars, facVars, pngVars>>
notPng ==
    <<stlVars, pfmVars, npyVars, o3dVars, asciiVars, facVars, sphVars>>

-----------------------------------------------------------------------------
(* Bounds of the model *)

\* largest `subdivisions` drawn as an input of create_subdivided_sphere
MaxSubdivisions == 2
\* largest n drawn as an input of the factor helpers
MaxN == 300
\* longest triangle sequence drawn as an input of write_binary_stl
MaxTris == 2
\* header strings of HeaderField - MaxOver .. HeaderField + MaxOver characters
MaxOver == 1
\* largest width and height drawn as an input of create_test_pfm
MaxDim == 4
\* width and height of the depth image of create_test_npy_files (the script
\* has 640 x 480)
GridWidth == 5
GridHeight == 2
\* point counts 0..MaxPoints are drawn as the size of the argument `pcd`
MaxPoints == 2

-----------------------------------------------------------------------------
(* Arithmetic helpers *)

Min(a, b) == IF a < b THEN a ELSE b
Max(a, b) == IF a > b THEN a ELSE b
Abs(a) == IF a < 0 THEN -a ELSE a

RECURSIVE Pow2(_)
Pow2(n) == IF n <= 0 THEN 1 ELSE 2 * Pow2(n - 1)

\* Python's int(a / b) for integers a, b with b > 0: the quotient truncated
\* toward zero.  (a / b is a correctly rounded double; for |a| < 2^31 and
\* b = 255 it is an integer only when the exact quotient is, so truncating
\* the double equals truncating the exact quotient.)
TruncDiv(a, b) == IF a >= 0 THEN a \div b ELSE -((-a) \div b)

\* a / b rounded to the nearest integer (halves away from zero), b > 0
RoundDiv(a, b) == IF a >= 0 THEN (2 * a + b) \div (2 * b)
                            ELSE -((2 * (-a) + b) \div (2 * b))

\* floor of the square root of n < 2^31, one result bit at a time
RECURSIVE IsqrtBits(_, _, _)
IsqrtBits(n, r, bit) ==
    IF bit = 0 THEN r
    ELSE IF r + bit <= 46340 /\ (r + bit) * (r + bit) <= n
         THEN IsqrtBits(n, r + bit, bit \div 2)
         ELSE IsqrtBits(n, r, bit \div 2)
Isqrt(n) == IF n <= 0 THEN 0 ELSE IsqrtBits(n, 0, 32768)

\* Python's a | b on unbounded two's-complement integers
RECURSIVE BitOr(_, _)
BitOr(a, b) ==
    IF a = 0 THEN b
    ELSE IF b = 0 THEN a
    ELSE IF a = -1 \/ b = -1 THEN -1
    ELSE 2 * BitOr(a \div 2, b \div 2) + Max(a % 2, b % 2)

\* Python's a << n
ShiftLeft(a, n) == a * Pow2(n)

Rep(b, n) == [i \in 1..n |-> b]

RECURSIVE Concat(_)
Concat(ss) == IF ss = <<>> THEN <<>> ELSE Head(ss) \o Concat(Tail(ss))

-----------------------------------------------------------------------------
(* struct.pack *)

\* The result of a struct.pack call: the bytes, or struct.error raised.
Packed(bs) == [ok |-> TRUE, bytes |-> bs]
StructError == [ok |-> FALSE, bytes |-> <<>>]

\* struct.pack('<I', n)
PackI(n) ==
    IF n < 0 THEN StructError
    ELSE Packed(<<n % 256, (n \div 256) % 256, (n \div 65536) % 256,
                  (n \div 16777216) % 256>>)

\* struct.pack('<H', v): struct.error unless 0 <= v <= 65535
PackH(v) ==
    IF v < 0 \/ v > 65535 THEN StructError
    ELSE Packed(<<v % 256, v \div 256>>)

\* The binary exponent e of a/1000 (a > 0): 2^e <= a/1000 < 2^(e+1).
RECURSIVE ExpUp(_, _)
ExpUp(a, e) == IF a < 2000 * Pow2(e) THEN e ELSE ExpUp(a, e + 1)
RECURSIVE ExpDown(_, _)
ExpDown(a, k) == IF a * Pow2(k) >= 1000 THEN -k ELSE ExpDown(a, k + 1)
Exponent(a) == IF a >= 1000 THEN ExpUp(a, 0) ELSE ExpDown(a, 1)

\* n more quotient bits of r/den (0 <= r < den), by long division:
\* <<quotient, remainder>> after acc.
RECURSIVE LongDiv(_, _, _, _)
LongDiv(r, den, n, acc) ==
    IF n = 0 THEN <<acc, r>>
    ELSE IF 2 * r >= den THEN LongDiv(2 * r - den, den, n - 1, 2 * acc + 1)
                         ELSE LongDiv(2 * r, den, n - 1, 2 * acc)

\* The single-precision float nearest to m/1000 as <<sign, biased exponent,
\* 23-bit fraction>> (round to nearest, ties to even).  |m| stays below
\* 2^21, so no intermediate exceeds 32 bits and the result is normal.
Float32(m) ==
    IF m = 0 THEN <<0, 0, 0>>
    ELSE LET a    == Abs(m)
             e    == Exponent(a)
             num  == IF e >= 0 THEN a ELSE a * Pow2(-e)
             den  == IF e >= 0 THEN 1000 * Pow2(e) ELSE 1000
             qr   == LongDiv(num - den, den, 23, 1)
             q    == qr[1]
             r    == qr[2]
             up   == 2 * r > den \/ (2 * r = den /\ q % 2 = 1)
             mant == IF up THEN q + 1 ELSE q
             e2   == IF mant = 16777216 THEN e + 1 ELSE e
             frac == IF mant = 16777216 THEN 0 ELSE mant - 8388608
         IN  <<IF m < 0 THEN 1 ELSE 0, e2 + 127, frac>>

\* The four little-endian bytes of a single-precision float
Float32Bytes(x) ==
    <<x[3] % 256,
      (x[3] \div 256) % 256,
      (x[3] \div 65536) + 128 * (x[2] % 2),
      (x[2] \div 2) + 128 * x[1]>>

\* The value of a single-precision float <<sign, biased exponent, fraction>>
\* in thousandths, rounded to the nearest; |value| < 2048.
Float32Value(x) ==
    LET e    == x[2] - 127
        mant == 8388608 + x[3]
        hi   == mant \div 4096
        lo   == mant % 4096
        a    == hi * 1000 + ((lo * 1000) \div 4096)
        t    == 11 - e
        mag  == (a + Pow2(t - 1)) \div Pow2(t)
    IN  IF x = <<0, 0, 0>> THEN 0
        ELSE IF x[1] = 1 THEN -mag ELSE mag

\* struct.pack('<f', m/1000)
PackF(m) == Float32Bytes(Float32(m))

\* struct.pack('<fff', a, b, c)
PackFFF(v) == PackF(v[1]) \o PackF(v[2]) \o PackF(v[3])

-----------------------------------------------------------------------------
(* create_test_stl.py: geometry *)

Vec(x, y, z) == <<x, y, z>>

\* calculate_normal(v1, v2, v3): the normalised cross product of the two
\* edge vectors; the zero vector is returned as it is.  Coordinates are
\* thousandths, so the cross product is in millionths; it is scaled down
\* (the direction kept) until the sum of its squares fits 32 bits, and the
\* quotient is rounded to thousandths.
calculate_normal(v1, v2, v3) ==
    LET u == Vec(v2[1] - v1[1], v2[2] - v1[2], v2[3] - v1[3])
        v == Vec(v3[1] - v1[1], v3[2] - v1[2], v3[3] - v1[3])
        cross == Vec(u[2] * v[3] - u[3] * v[2],
                     u[3] * v[1] - u[1] * v[3],
                     u[1] * v[2] - u[2] * v[1])
        scale == (Max(Abs(cross[1]), Max(Abs(cross[2]), Abs(cross[3])))
                  \div 26000) + 1
        normal == Vec(RoundDiv(cross[1], scale), RoundDiv(cross[2], scale),
                      RoundDiv(cross[3], scale))
        length == Isqrt(normal[1] * normal[1] + normal[2] * normal[2]
                        + normal[3] * normal[3])
    IN  IF length > 0
        THEN Vec(RoundDiv(normal[1] * 1000, length),
                 RoundDiv(normal[2] * 1000, length),
                 RoundDiv(normal[3] * 1000, length))
        ELSE normal

\* A triangle dictionary; a missing 'color' key (triangle.get gives None) is
\* the empty sequence, which is falsy like None.
NoColor == <<>>
Triangle(n, vs, c) == [normal |-> n, vertices |-> vs, color |-> c]

\* create_tetrahedron()
create_tetrahedron ==
    LET v1 == Vec(0, 0, 0)
        v2 == Vec(1000, 0, 0)
        v3 == Vec(500, 866, 0)
        v4 == Vec(500, 289, 816)
    IN  << Triangle(calculate_normal(v1, v2, v3), <<v1, v2, v3>>, NoColor),
           Triangle(calculate_normal(v1, v3, v4), <<v1, v3, v4>>, NoColor),
           Triangle(calculate_normal(v1, v4, v2), <<v1, v4, v2>>, NoColor),
           Triangle(calculate_normal(v2, v4, v3), <<v2, v4, v3>>, NoColor) >>

\* The vertex table of create_colored_cube (vertices[0] .. vertices[7])
CubeVertices ==
    << Vec(0, 0, 0), Vec(1000, 0, 0), Vec(1000, 1000, 0), Vec(0, 1000, 0),
       Vec(0, 0, 1000), Vec(1000, 0, 1000), Vec(1000, 1000, 1000),
       Vec(0, 1000, 1000) >>

\* vertices[i] with Python's 0-based index
CubeVertex(i) == CubeVertices[i + 1]

\* The face table of create_colored_cube: vertex indices and RGB color
CubeFaces ==
    << <<0, 1, 2, <<255, 0, 0>>>>,   <<0, 2, 3, <<255, 0, 0>>>>,
       <<4, 7, 6, <<0, 255, 0>>>>,   <<4, 6, 5, <<0, 255, 0>>>>,
       <<0, 4, 5, <<0, 0, 255>>>>,   <<0, 5, 1, <<0, 0, 255>>>>,
       <<2, 6, 7, <<255, 255, 0>>>>, <<2, 7, 3, <<255, 255, 0>>>>,
       <<0, 3, 7, <<255, 0, 255>>>>, <<0, 7, 4, <<255, 0, 255>>>>,
       <<1, 5, 6, <<0, 255, 255>>>>, <<1, 6, 2, <<0, 255, 255>>>> >>

\* A wrong face triangle: the 'color' key left out
CubeTriangle_NoColor(face) ==
    LET face_vertices == <<CubeVertex(face[1]), CubeVertex(face[2]),
                           CubeVertex(face[3])>>
    IN  Triangle(calculate_normal(face_vertices[1], face_vertices[2],
                                  face_vertices[3]),
                 face_vertices, NoColor)

\* The triangle create_colored_cube appends for one face
CubeTriangle(face) ==
    LET face_vertices == <<CubeVertex(face[1]), CubeVertex(face[2]),
                           CubeVertex(face[3])>>
    IN  Triangle(calculate_normal(face_vertices[1], face_vertices[2],
                                  face_vertices[3]),
                 face_vertices, face[4])

\* create_colored_cube()
create_colored_cube == [k \in 1..Len(CubeFaces) |-> CubeTriangle(CubeFaces[k])]

-----------------------------------------------------------------------------
(* create_test_stl.py: write_binary_stl *)

\* size of the header field
HeaderField == 80

\* str.encode('utf-8') of one code point (a Unicode scalar value)
Utf8Char(c) ==
    IF c < 128 THEN <<c>>
    ELSE IF c < 2048 THEN <<192 + (c \div 64), 128 + (c % 64)>>
    ELSE IF c < 65536
         THEN <<224 + (c \div 4096), 128 + ((c \div 64) % 64), 128 + (c % 64)>>
    ELSE <<240 + (c \div 262144), 128 + ((c \div 4096) % 64),
           128 + ((c \div 64) % 64), 128 + (c % 64)>>

\* header.encode('utf-8')
Utf8Encode(s) == Concat([i \in 1..Len(s) |-> Utf8Char(s[i])])

\* bs[:n]
Truncate(bs, n) == SubSeq(bs, 1, Min(n, Len(bs)))

\* bs.ljust(n, fill)
Ljust(bs, n, fill) == IF Len(bs) >= n THEN bs ELSE bs \o Rep(fill, n - Len(bs))

\* A wrong header: padded but never cut to the field size
HeaderBytes_NoTruncate(h) == Ljust(Utf8Encode(h), HeaderField, 0)

\* header.encode('utf-8')[:80].ljust(80, b'\0')
HeaderBytes(h) == Ljust(Truncate(Utf8Encode(h), HeaderField), HeaderField, 0)

\* One channel scaled to `top` levels: min(top, int(c * top / 255))
ScaleChannel(c, top) == Min(top, TruncDiv(c * top, 255))

\* A wrong packing: blue in the most significant bits, red in the least
ColorPacked_BlueFirst(color) ==
    LET r == ScaleChannel(color[1], 31)
        g == ScaleChannel(color[2], 63)
        b == ScaleChannel(color[3], 31)
    IN  BitOr(BitOr(ShiftLeft(b, 11), ShiftLeft(g, 5)), r)

\* color_packed = (r << 11) | (g << 5) | b
ColorPacked(color) ==
    LET r == ScaleChannel(color[1], 31)
        g == ScaleChannel(color[2], 63)
        b == ScaleChannel(color[3], 31)
    IN  BitOr(BitOr(ShiftLeft(r, 11), ShiftLeft(g, 5)), b)

\* The attribute bytes of a triangle: struct.pack('<H', color_packed) when
\* `color` is truthy, else struct.pack('<H', 0)
AttributeBytes(color) ==
    IF color # NoColor THEN PackH(ColorPacked(color)) ELSE PackH(0)

\* A handle that is closed only when its block runs to the end
WithExit_NoFinally(raised) == raised

\* Whether the handle `f` of `with open(..) as f` is open once the block is
\* left, by running to its end (raised = FALSE) or by an exception
\* (raised = TRUE): the context manager closes it either way.
WithExit(raised) == FALSE

\* with open(filename, 'wb') as f
StlOpenFile ==
    /\ UNCHANGED notStl
    /\ stlPc = "start"
    /\ stlOpen' = TRUE
    /\ stlFile' = <<>>
    /\ stlPc' = "header"
    /\ UNCHANGED <<triangles, header, stlIdx, stlVtx>>

\* f.write(header_bytes)
WriteHeader ==
    /\ UNCHANGED notStl
    /\ stlPc = "header"
    /\ stlFile' = stlFile \o HeaderBytes(header)
    /\ stlPc' = "count"
    /\ UNCHANGED <<triangles, header, stlOpen, stlIdx, stlVtx>>

\* f.write(struct.pack('<I', len(triangles))), then the loop is entered
WriteCount ==
    /\ UNCHANGED notStl
    /\ stlPc = "count"
    /\ stlFile' = stlFile \o PackI(Len(triangles)).bytes
    /\ stlIdx' = 1
    /\ stlPc' = IF Len(triangles) = 0 THEN "close" ELSE "normal"
    /\ UNCHANGED <<triangles, header, stlOpen, stlVtx>>

\* f.write(struct.pack('<fff', normal[0], normal[1], normal[2]))
WriteNormal ==
    /\ UNCHANGED notStl
    /\ stlPc = "normal"
    /\ stlFile' = stlFile \o PackFFF(triangles[stlIdx].normal)
    /\ stlVtx' = 0
    /\ stlPc' = "vertex"
    /\ UNCHANGED <<triangles, header, stlOpen, stlIdx>>

\* A wrong iteration order: the vertices taken last to first
VertexAt_Reversed(vertices, n) == vertices[Len(vertices) - n]

\* The vertex that `for vertex in vertices` yields after n iterations
VertexAt(vertices, n) == vertices[n + 1]

\* for vertex in vertices: f.write(struct.pack('<fff', ...))
WriteVertex ==
    /\ UNCHANGED notStl
    /\ stlPc = "vertex"
    /\ stlVtx < Len(triangles[stlIdx].vertices)
    /\ stlFile' = stlFile
                  \o PackFFF(VertexAt(triangles[stlIdx].vertices, stlVtx))
    /\ stlVtx' = stlVtx + 1
    /\ stlPc' = IF stlVtx + 1 = Len(triangles[stlIdx].vertices)
                THEN "attribute" ELSE "vertex"
    /\ UNCHANGED <<triangles, header, stlOpen, stlIdx>>

\* The attribute bytes are written and the loop goes to the next triangle;
\* a struct.error of struct.pack leaves the with block, which closes f, and
\* propagates to the caller.
WriteAttribute ==
    /\ UNCHANGED notStl
    /\ stlPc = "attribute"
    /\ LET packed == AttributeBytes(triangles[stlIdx].color)
       IN  IF packed.ok
           THEN /\ stlFile' = stlFile \o packed.bytes
                /\ stlIdx' = stlIdx + 1
                /\ stlPc' = IF stlIdx = Len(triangles) THEN "close" ELSE "normal"
                /\ stlOpen' = stlOpen
           ELSE /\ stlPc' = "raised"
                /\ stlOpen' = WithExit(TRUE)
                /\ UNCHANGED <<stlFile, stlIdx>>
    /\ UNCHANGED <<triangles, header, stlVtx>>

\* The with block is left normally: f is closed and the function returns.
StlClose ==
    /\ UNCHANGED notStl
    /\ stlPc = "close"
    /\ stlOpen' = WithExit(FALSE)
    /\ stlPc' = "done"
    /\ UNCHANGED <<triangles, header, stlFile, stlIdx, stlVtx>>

\* An OSError of open() or of a call on f (a full disk, a revoked
\* permission): open() gives no handle; inside the with block the exception
\* leaves the block, which closes f, and propagates to the caller.
StlIOError ==
    /\ UNCHANGED notStl
    /\ stlPc \in {"start", "header", "count", "normal", "vertex", "attribute",
                  "close"}
    /\ stlOpen' = IF stlPc = "start" THEN stlOpen ELSE WithExit(TRUE)
    /\ stlPc' = "io_error"
    /\ UNCHANGED <<triangles, header, stlFile, stlIdx, stlVtx>>

(* Inputs of write_binary_stl *)

\* header strings as code points: "Generated STL" (the default),
\* "Binary Tetrahedron Test" and "Colored Cube with RGB565" (main)
DefaultHeader == <<71, 101, 110, 101, 114, 97, 116, 101, 100, 32, 83, 84, 76>>
TetrahedronHeader ==
    <<66, 105, 110, 97, 114, 121, 32, 84, 101, 116, 114, 97, 104, 101, 100,
      114, 111, 110, 32, 84, 101, 115, 116>>
CubeHeader ==
    <<67, 111, 108, 111, 114, 101, 100, 32, 67, 117, 98, 101, 32, 119, 105,
      116, 104, 32, 82, 71, 66, 53, 54, 53>>

\* Headers around the field size: runs of 'A', alone or followed by one
\* character of two or three UTF-8 bytes (which the cut may split).
HeaderSamples ==
    {<<>>, DefaultHeader, TetrahedronHeader, CubeHeader}
    \cup {Rep(65, n) \o tail :
            n \in (HeaderField - MaxOver - 1)..(HeaderField + MaxOver),
            tail \in {<<>>, <<233>>, <<8364>>}}

\* Color arguments: none, colors of the data model (channels in 0..255), and
\* colors with channels above 255 or below 0.
ColorSamples ==
    {NoColor, <<255, 0, 0>>, <<0, 0, 0>>, <<9, 133, 200>>,
     <<300, 256, 1000>>, <<-8, -4, -1>>, <<0, 0, -255>>}

ChannelInRange(c) == c \in 0..255
ColorInRange(color) ==
    color = NoColor \/ \A k \in 1..3 : ChannelInRange(color[k])

TriangleSamples ==
    {Triangle(Vec(-577, 333, 1500),
              <<Vec(-1000, 2000, 289), Vec(816, 1, 100), Vec(0, -2000, 1500)>>,
              c) : c \in ColorSamples}
    \cup {Triangle(Vec(0, 0, 1000),
                   <<Vec(0, 0, 0), Vec(1000, 0, 0), Vec(500, 866, 0)>>,
                   NoColor)}

SeqsUpTo(S, n) == UNION {[1..k -> S] : k \in 0..n}

TriangleInputs ==
    SeqsUpTo(TriangleSamples, MaxTris) \cup {create_tetrahedron, create_colored_cube}

StlInit ==
    /\ stlPc = "start"
    /\ triangles \in TriangleInputs
    /\ header \in HeaderSamples
    /\ stlFile = <<>>
    /\ stlOpen = FALSE
    /\ stlIdx = 0
    /\ stlVtx = 0

StlNext ==
    \/ StlOpenFile
    \/ WriteHeader
    \/ WriteCount
    \/ WriteNormal
    \/ WriteVertex
    \/ WriteAttribute
    \/ StlClose

-----------------------------------------------------------------------------
(* create_test_pfm.py: create_test_pfm *)

\* str(n).encode('ascii') for n >= 0
RECURSIVE DecimalDigits(_)
DecimalDigits(n) ==
    IF n < 10 THEN <<48 + n>> ELSE DecimalDigits(n \div 10) \o <<48 + (n % 10)>>

\* b'Pf\n'
PfmMagic == <<80, 102, 10>>

\* A wrong dimension line: the height first
DimsLine_HeightFirst(w, h) == DecimalDigits(h) \o <<32>> \o DecimalDigits(w) \o <<10>>

\* f'{width} {height}\n'.encode('ascii')
DimsLine(w, h) == DecimalDigits(w) \o <<32>> \o DecimalDigits(h) \o <<10>>

\* b'-1.0\n'
ScaleLine == <<45, 49, 46, 48, 10>>

\* The pyramid: depths[y, x] = 1.0 + (max_dist - dist) * 0.5
PyramidDepths(w, h) ==
    LET center_x == w \div 2
        center_y == h \div 2
        max_dist == Max(center_x, center_y)
    IN  [y \in 0..(h - 1) |->
            [x \in 0..(w - 1) |->
                LET dist == Max(Abs(x - center_x), Abs(y - center_y))
                IN  1000 + (max_dist - dist) * 500]]

\* A wrong row order: top row first
RowRange_TopDown(h) == [i \in 1..h |-> i - 1]

\* range(height - 1, -1, -1) as the sequence of its values
RowRange(h) == [i \in 1..h |-> h - i]

\* depths = np.zeros(...) and the two loops that fill it
FillDepths ==
    /\ UNCHANGED notPfm
    /\ pfmPc = "start"
    /\ depths' = PyramidDepths(width, height)
    /\ pfmPc' = "open"
    /\ UNCHANGED <<width, height, pfmFile, pfmOpen, pfmRow, pfmX, pfmOrder>>

\* with open(filename, 'wb') as f
PfmOpenFile ==
    /\ UNCHANGED notPfm
    /\ pfmPc = "open"
    /\ pfmOpen' = TRUE
    /\ pfmFile' = <<>>
    /\ pfmPc' = "magic"
    /\ UNCHANGED <<width, height, depths, pfmRow, pfmX, pfmOrder>>

\* f.write(b'Pf\n')
WriteMagic ==
    /\ UNCHANGED notPfm
    /\ pfmPc = "magic"
    /\ pfmFile' = pfmFile \o PfmMagic
    /\ pfmPc' = "dims"
    /\ UNCHANGED <<width, height, depths, pfmOpen, pfmRow, pfmX, pfmOrder>>

\* f.write(f'{width} {height}\n'.encode('ascii'))
WriteDims ==
    /\ UNCHANGED notPfm
    /\ pfmPc = "dims"
    /\ pfmFile' = pfmFile \o DimsLine(width, height)
    /\ pfmPc' = "scale"
    /\ UNCHANGED <<width, height, depths, pfmOpen, pfmRow, pfmX, pfmOrder>>

\* f.write(b'-1.0\n'); the outer loop starts
WriteScale ==
    /\ UNCHANGED notPfm
    /\ pfmPc = "scale"
    /\ pfmFile' = pfmFile \o ScaleLine
    /\ pfmRow' = 0
    /\ pfmX' = 0
    /\ pfmPc' = "rows"
    /\ UNCHANGED <<width, height, depths, pfmOpen, pfmOrder>>

\* The outer loop takes its next y, or ends when range() is exhausted; a
\* row whose inner range is empty is passed over.
NextRow ==
    /\ UNCHANGED notPfm
    /\ pfmPc = "rows"
    /\ ~(pfmRow < Len(RowRange(height)) /\ pfmX < width)
    /\ IF pfmRow >= Len(RowRange(height))
       THEN pfmPc' = "close" /\ UNCHANGED <<pfmRow, pfmX>>
       ELSE pfmRow' = pfmRow + 1 /\ pfmX' = 0 /\ pfmPc' = "rows"
    /\ UNCHANGED <<width, height, depths, pfmFile, pfmOpen, pfmOrder>>

\* f.write(struct.pack('<f', depths[y, x]))
WriteSample ==
    /\ UNCHANGED notPfm
    /\ pfmPc = "rows"
    /\ pfmRow < Len(RowRange(height))
    /\ pfmX < width
    /\ LET y == RowRange(height)[pfmRow + 1]
       IN  /\ pfmFile' = pfmFile \o PackF(depths[y][pfmX])
           /\ pfmOrder' = Append(pfmOrder, <<y, pfmX>>)
    /\ pfmX' = pfmX + 1
    /\ UNCHANGED <<pfmPc, width, height, depths, pfmOpen, pfmRow>>

\* The with block is left: f is closed.
PfmClose ==
    /\ UNCHANGED notPfm
    /\ pfmPc = "close"
    /\ pfmOpen' = WithExit(FALSE)
    /\ pfmPc' = "report"
    /\ UNCHANGED <<width, height, depths, pfmFile, pfmRow, pfmX, pfmOrder>>

\* An OSError of open() or of a call on f: open() gives no handle; inside
\* the with block the exception leaves the block, which closes f, and
\* propagates to the caller.
PfmIOError ==
    /\ UNCHANGED notPfm
    /\ pfmPc \in {"open", "magic", "dims", "scale", "rows", "close"}
    /\ pfmOpen' = IF pfmPc = "open" THEN pfmOpen ELSE WithExit(TRUE)
    /\ pfmPc' = "io_error"
    /\ UNCHANGED <<width, height, depths, pfmFile, pfmRow, pfmX, pfmOrder>>

\* The three print calls; depths.min() of an array without elements raises
\* ValueError, which propagates to the caller.
PfmReport ==
    /\ UNCHANGED notPfm
    /\ pfmPc = "report"
    /\ pfmPc' = IF width * height = 0 THEN "raised" ELSE "done"
    /\ UNCHANGED <<width, height, depths, pfmFile, pfmOpen, pfmRow, pfmX,
                   pfmOrder>>

\* main's call create_test_pfm('test_depth.pfm', 20, 20) and the default
\* width=10, height=10
PfmMainDims == <<20, 20>>
PfmDefaultDims == <<10, 10>>

PfmInputs ==
    {<<w, h>> : w \in 0..MaxDim, h \in 0..MaxDim} \cup {PfmMainDims, PfmDefaultDims}

PfmInit ==
    /\ pfmPc = "start"
    /\ \E d \in PfmInputs : width = d[1] /\ height = d[2]
    /\ depths = <<>>
    /\ pfmFile = <<>>
    /\ pfmOpen = FALSE
    /\ pfmRow = 0
    /\ pfmX = 0
    /\ pfmOrder = <<>>

PfmNext ==
    \/ FillDepths
    \/ PfmOpenFile
    \/ WriteMagic
    \/ WriteDims
    \/ WriteScale
    \/ NextRow
    \/ WriteSample
    \/ PfmClose
    \/ PfmReport

-----------------------------------------------------------------------------
(* create_npy_test_files.py: create_test_npy_files *)

\* np.linspace(0, 1, n)[i] in thousandths
Linspace01(n, i) == IF n <= 1 THEN 0 ELSE RoundDiv(i * 1000, n - 1)

\* 1.0 + 2.0 * np.sqrt((X - 0.5)**2 + (Y - 0.5)**2) on the meshgrid of the
\* two linspaces
RadialDepth(w, h) ==
    [y \in 0..(h - 1) |->
        [x \in 0..(w - 1) |->
            LET dx == Linspace01(w, x) - 500
                dy == Linspace01(h, y) - 500
            IN  1000 + 2 * Isqrt(dx * dx + dy * dy)]]

\* a + b for two arrays of one shape
AddArrays(a, b) == [y \in DOMAIN a |-> [x \in DOMAIN a[y] |-> a[y][x] + b[y][x]]]

\* A wrong clamp: np.minimum in place of np.maximum
Maximum_Minimum(a, floor) ==
    [y \in DOMAIN a |-> [x \in DOMAIN a[y] |-> Min(a[y][x], floor)]]

\* np.maximum(a, floor)
Maximum(a, floor) ==
    [y \in DOMAIN a |-> [x \in DOMAIN a[y] |-> Max(a[y][x], floor)]]

\* a.astype(np.float32): each sample becomes the nearest single-precision
\* float <<sign, biased exponent, fraction>>
AsFloat32(a) == [y \in DOMAIN a |-> [x \in DOMAIN a[y] |-> Float32(a[y][x])]]

\* (numerator / a).astype(np.float32) for an array a of single-precision
\* floats and a numerator in thousandths
DivideBy(numerator, a) ==
    [y \in DOMAIN a |->
        [x \in DOMAIN a[y] |->
            Float32(RoundDiv(numerator * 1000, Float32Value(a[y][x])))]]

\* The floor of the depth values, 0.1
DepthFloor == 100

\* baseline * focal_length = 0.1 * 525.0, in thousandths
BaselineFocal == 52500

\* a[::step, ::step]
Downsample(a, step, w, h) ==
    [i \in 0..(((h + step - 1) \div step) - 1) |->
        [j \in 0..(((w + step - 1) \div step) - 1) |-> a[step * i][step * j]]]

\* The step of the downsampled copy, depth_data[::4, ::4]
SmallStep == 4

\* Values a sample of np.random.normal(0, 0.05) is drawn from in the model:
\* typical ones, and ones far in the negative tail
NoiseValues == <<0, 50, -1901, -5000>>

\* The noise arrays of the model: every sample takes every value of
\* NoiseValues, in patterns that vary along both axes
NoiseFields(w, h) ==
    LET K == Len(NoiseValues)
    IN  {[y \in 0..(h - 1) |->
            [x \in 0..(w - 1) |-> NoiseValues[((a * x + b * y + c) % K) + 1]]] :
         a \in 0..(K - 1), b \in 0..(K - 1), c \in 0..(K - 1)}

\* x, y, X, Y and depth_data = 1.0 + 2.0 * np.sqrt(...)
MakeDepth ==
    /\ UNCHANGED notNpy
    /\ npyPc = "start"
    /\ depth_data' = RadialDepth(GridWidth, GridHeight)
    /\ npyPc' = "noise"
    /\ UNCHANGED <<disparity_data, npyFiles>>

\* noise = np.random.normal(0, 0.05, depth_data.shape); depth_data += noise
AddNoise ==
    /\ UNCHANGED notNpy
    /\ npyPc = "noise"
    /\ \E noise \in NoiseFields(GridWidth, GridHeight) :
          depth_data' = AddArrays(depth_data, noise)
    /\ npyPc' = "clamp"
    /\ UNCHANGED <<disparity_data, npyFiles>>

\* depth_data = np.maximum(depth_data, 0.1)
ClampDepth ==
    /\ UNCHANGED notNpy
    /\ npyPc = "clamp"
    /\ depth_data' = Maximum(depth_data, DepthFloor)
    /\ npyPc' = "astype"
    /\ UNCHANGED <<disparity_data, npyFiles>>

\* depth_data = depth_data.astype(np.float32): from here on a sample is a
\* single-precision float <<sign, biased exponent, fraction>>
AsTypeDepth ==
    /\ UNCHANGED notNpy
    /\ npyPc = "astype"
    /\ depth_data' = AsFloat32(depth_data)
    /\ npyPc' = "save_depth"
    /\ UNCHANGED <<disparity_data, npyFiles>>

\* np.save('test_depth.npy', depth_data)
SaveDepth ==
    /\ UNCHANGED notNpy
    /\ npyPc = "save_depth"
    /\ npyFiles' = [npyFiles EXCEPT !["test_depth.npy"] = depth_data]
    /\ npyPc' = "disparity"
    /\ UNCHANGED <<depth_data, disparity_data>>

\* disparity_data = ((baseline * focal_length) / depth_data).astype(np.float32)
MakeDisparity ==
    /\ UNCHANGED notNpy
    /\ npyPc = "disparity"
    /\ disparity_data' = DivideBy(BaselineFocal, depth_data)
    /\ npyPc' = "save_disparity"
    /\ UNCHANGED <<depth_data, npyFiles>>

\* np.save('test_disparity.npy', disparity_data)
SaveDisparity ==
    /\ UNCHANGED notNpy
    /\ npyPc = "save_disparity"
    /\ npyFiles' = [npyFiles EXCEPT !["test_disparity.npy"] = disparity_data]
    /\ npyPc' = "save_npz"
    /\ UNCHANGED <<depth_data, disparity_data>>

\* camera_params and np.savez('test_depth_with_params.npz', ...)
SaveNpz ==
    /\ UNCHANGED notNpy
    /\ npyPc = "save_npz"
    /\ npyFiles' = [npyFiles EXCEPT !["test_depth_with_params.npz"] =
                      [depth |-> depth_data, disparity |-> disparity_data,
                       fx |-> 525000, fy |-> 525000,
                       cx |-> (GridWidth * 1000) \div 2,
                       cy |-> (GridHeight * 1000) \div 2,
                       baseline |-> 100,
                       width |-> GridWidth, height |-> GridHeight]]
    /\ npyPc' = "save_small"
    /\ UNCHANGED <<depth_data, disparity_data>>

\* small_depth = depth_data[::4, ::4]; np.save('test_depth_small.npy', ...)
SaveSmall ==
    /\ UNCHANGED notNpy
    /\ npyPc = "save_small"
    /\ npyFiles' = [npyFiles EXCEPT !["test_depth_small.npy"] =
                      Downsample(depth_data, SmallStep, GridWidth, GridHeight)]
    /\ npyPc' = "report"
    /\ UNCHANGED <<depth_data, disparity_data>>

\* The closing prints and the listing of the file sizes
NpyReport ==
    /\ UNCHANGED notNpy
    /\ npyPc = "report"
    /\ npyPc' = "done"
    /\ UNCHANGED <<depth_data, disparity_data, npyFiles>>

NpyFileNames ==
    {"test_depth.npy", "test_disparity.npy", "test_depth_with_params.npz",
     "test_depth_small.npy"}

\* A file that has not been written
Absent == <<>>

NpyInit ==
    /\ npyPc = "start"
    /\ depth_data = <<>>
    /\ disparity_data = <<>>
    /\ npyFiles = [n \in NpyFileNames |-> Absent]

NpyNext ==
    \/ MakeDepth
    \/ AddNoise
    \/ ClampDepth
    \/ AsTypeDepth
    \/ SaveDepth
    \/ MakeDisparity
    \/ SaveDisparity
    \/ SaveNpz
    \/ SaveSmall
    \/ NpyReport

-----------------------------------------------------------------------------
(* generate_test_files.py: the factor helpers *)

\* A square root rounded up
RoundSqrt_Ceil(n) == LET r == Isqrt(n) IN IF n > r * r THEN r + 1 ELSE r

\* int(round(np.sqrt(n))) for n >= 0
RoundSqrt(n) == LET r == Isqrt(n) IN IF n - r * r > r THEN r + 1 ELSE r

\* A loop that stops at the first candidate, divisor or not
LoopContinues_Never(n, p1) == FALSE

\* The loop condition `p1 > 1 and n % p1 != 0`
LoopContinues(n, p1) == p1 > 1 /\ n % p1 # 0

\* The largest p in 1..p1 with p = 1 or n % p = 0:
\* while p1 > 1 and n % p1 != 0: p1 -= 1
RECURSIVE CountDown(_, _)
CountDown(n, p1) == IF LoopContinues(n, p1) THEN CountDown(n, p1 - 1) ELSE p1

\* _choose_2d_factors(n)
_choose_2d_factors(n) ==
    IF n <= 0 THEN <<1, 1>>
    ELSE LET p1 == CountDown(n, Max(1, RoundSqrt(n)))
         IN  <<p1, n \div p1>>

\* floor of the cube root
RECURSIVE IcbrtFrom(_, _)
IcbrtFrom(n, r) ==
    IF (r + 1) * (r + 1) * (r + 1) > n THEN r ELSE IcbrtFrom(n, r + 1)

\* int(round(n ** (1.0 / 3.0))) for n >= 1: the cube root is above r + 1/2
\* exactly when 8n > (2r + 1)^3
RoundCbrt(n) ==
    LET r == IcbrtFrom(n, 0)
    IN  IF 8 * n > (2 * r + 1) * (2 * r + 1) * (2 * r + 1) THEN r + 1 ELSE r

\* _choose_3d_factors(n)
_choose_3d_factors(n) ==
    IF n <= 0 THEN <<1, 1, 1>>
    ELSE LET p1 == CountDown(n, Max(1, RoundCbrt(n)))
             remaining == n \div p1
             p2 == CountDown(remaining, Max(1, RoundSqrt(remaining)))
         IN  <<p1, p2, remaining \div p2>>

(* The two helpers statement by statement *)

\* The call: `if n <= 0: return 1, 1` (or 1, 1, 1), else the first
\* candidate p1 = max(1, int(round(...)))
FacEnter ==
    /\ UNCHANGED notFac
    /\ facPc = "call"
    /\ IF facN <= 0
       THEN /\ facP1' = 1 /\ facP2' = 1
            /\ facP3' = IF facFn = "_choose_3d_factors" THEN 1 ELSE facP3
            /\ facPc' = "return"
       ELSE /\ facP1' = IF facFn = "_choose_2d_factors"
                        THEN Max(1, RoundSqrt(facN))
                        ELSE Max(1, RoundCbrt(facN))
            /\ facPc' = "loop1"
            /\ UNCHANGED <<facP2, facP3>>
    /\ UNCHANGED <<facFn, facN, facRemaining, facSteps>>

\* while p1 > 1 and n % p1 != 0: p1 -= 1
FacDecrementP1 ==
    /\ UNCHANGED notFac
    /\ facPc = "loop1"
    /\ LoopContinues(facN, facP1)
    /\ facP1' = facP1 - 1
    /\ facSteps' = facSteps + 1
    /\ UNCHANGED <<facPc, facFn, facN, facP2, facP3, facRemaining>>

\* The first loop ends.  _choose_2d_factors: p2 = n // p1 and return.
\* _choose_3d_factors: remaining = n // p1 and the second candidate
\* p2 = max(1, int(round(np.sqrt(remaining)))).
FacAfterP1 ==
    /\ UNCHANGED notFac
    /\ facPc = "loop1"
    /\ ~LoopContinues(facN, facP1)
    /\ IF facFn = "_choose_2d_factors"
       THEN /\ facP2' = facN \div facP1
            /\ facPc' = "return"
            /\ UNCHANGED facRemaining
       ELSE /\ facRemaining' = facN \div facP1
            /\ facP2' = Max(1, RoundSqrt(facN \div facP1))
            /\ facPc' = "loop2"
    /\ UNCHANGED <<facFn, facN, facP1, facP3, facSteps>>

\* while p2 > 1 and remaining % p2 != 0: p2 -= 1
FacDecrementP2 ==
    /\ UNCHANGED notFac
    /\ facPc = "loop2"
    /\ LoopContinues(facRemaining, facP2)
    /\ facP2' = facP2 - 1
    /\ facSteps' = facSteps + 1
    /\ UNCHANGED <<facPc, facFn, facN, facP1, facP3, facRemaining>>

\* The second loop ends: p3 = remaining // p2 and return
FacAfterP2 ==
    /\ UNCHANGED notFac
    /\ facPc = "loop2"
    /\ ~LoopContinues(facRemaining, facP2)
    /\ facP3' = facRemaining \div facP2
    /\ facPc' = "return"
    /\ UNCHANGED <<facFn, facN, facP1, facP2, facRemaining, facSteps>>

\* The arguments: 0 and a negative number (the early return), 1..MaxN, and
\* the point count of main's point cloud (50 * 25)
FacInputs == (-1..MaxN) \cup {50 * 25}

FacInit ==
    /\ facPc = "call"
    /\ facFn \in {"_choose_2d_factors", "_choose_3d_factors"}
    /\ facN \in FacInputs
    /\ facP1 = 0 /\ facP2 = 0 /\ facP3 = 0 /\ facRemaining = 0
    /\ facSteps = 0

FacNext ==
    \/ FacEnter
    \/ FacDecrementP1
    \/ FacAfterP1
    \/ FacDecrementP2
    \/ FacAfterP2

-----------------------------------------------------------------------------
(* generate_test_files.py: generate_point_cloud_files, generate_mesh_files *)

\* The format tables, in the order of the dict literals
PointCloudFormats ==
    << [format |-> "ply",    filename |-> "sample_pointcloud.ply"],
       [format |-> "pcd",    filename |-> "sample_pointcloud.pcd"],
       [format |-> "xyz",    filename |-> "sample_pointcloud.xyz"],
       [format |-> "xyzn",   filename |-> "sample_pointcloud.xyzn"],
       [format |-> "xyzrgb", filename |-> "sample_pointcloud.xyzrgb"],
       [format |-> "pts",    filename |-> "sample_pointcloud.pts"] >>

MeshFormats ==
    << [format |-> "ply",  filename |-> "sample_mesh.ply"],
       [format |-> "stl",  filename |-> "sample_mesh.stl"],
       [format |-> "obj",  filename |-> "sample_mesh.obj"],
       [format |-> "off",  filename |-> "sample_mesh.off"],
       [format |-> "gltf", filename |-> "sample_mesh.gltf"],
       [format |-> "glb",  filename |-> "sample_mesh.glb"] >>

FormatTable(fn) ==
    IF fn = "generate_point_cloud_files" THEN PointCloudFormats ELSE MeshFormats

\* filepath.replace('.obj', '.mtl') of the OBJ file
MtlPath == "sample_mesh.mtl"

O3dFileNames ==
    {PointCloudFormats[k].filename : k \in 1..Len(PointCloudFormats)}
    \cup {MeshFormats[k].filename : k \in 1..Len(MeshFormats)}
    \cup {MtlPath}

\* What a call of o3d.io.write_point_cloud / write_triangle_mesh can do: write
\* the file and return True; return False; raise, with nothing or with a
\* partial file left behind.
WriteOutcomes == {"ok", "false", "raise", "raise_partial"}

\* The files after a write call with this outcome
AfterWrite(files, name, out) ==
    IF out = "ok" THEN [files EXCEPT ![name] = "complete"]
    ELSE IF out = "raise_partial" THEN [files EXCEPT ![name] = "partial"]
    ELSE files

\* The line the loop body prints for a write call with this outcome
ReportLine(out, name) ==
    IF out = "ok" THEN [mark |-> "created", file |-> name, note |-> ""]
    ELSE IF out = "false" THEN [mark |-> "failed", file |-> name, note |-> ""]
    ELSE [mark |-> "error", file |-> name, note |-> ""]

\* A wrong handler: the exception leaves the function
AfterIteration_Propagates(table, idx, failed) ==
    IF failed THEN [pc |-> "raised", idx |-> idx]
    ELSE [pc |-> IF idx = Len(table) THEN "end" ELSE "loop", idx |-> idx + 1]

\* Where the loop goes after the body of iteration idx, whether the body
\* ended normally or in the except clause: to the next format, or out of the
\* loop after the last one
AfterIteration(table, idx, failed) ==
    [pc |-> IF idx = Len(table) THEN "end" ELSE "loop", idx |-> idx + 1]

\* One iteration of the loop of generate_point_cloud_files
WritePointCloud ==
    /\ UNCHANGED notO3d
    /\ o3dFn = "generate_point_cloud_files"
    /\ o3dPc = "loop"
    /\ \E out \in WriteOutcomes :
          LET f == PointCloudFormats[o3dIdx]
              next == AfterIteration(PointCloudFormats, o3dIdx, out # "ok")
          IN  /\ o3dAttempts' = Append(o3dAttempts,
                                       [format |-> f.format, outcome |-> out])
              /\ o3dFiles' = AfterWrite(o3dFiles, f.filename, out)
              /\ o3dLog' = Append(o3dLog, ReportLine(out, f.filename))
              /\ o3dIdx' = next.idx
              /\ o3dPc' = IF next.pc = "end" THEN "npy" ELSE next.pc
    /\ UNCHANGED <<o3dFn, nPoints, hasColors, o3dNpy, mtlOpen>>

\* The .npy exports after the loop (pcd.points is an N x 3 array): the
\* [P, 3] array, then the reshapes to [p1, p2, 3] and [d1, d2, d3, 3]; a
\* reshape that does not keep the size raises ValueError, which the except
\* clause reports.
ExportNpy ==
    /\ UNCHANGED notO3d
    /\ o3dPc = "npy"
    /\ LET P  == nPoints
           f2 == _choose_2d_factors(P)
           f3 == _choose_3d_factors(P)
           created(shape) == [mark |-> "created", file |-> "npy", note |-> shape]
           error == [mark |-> "error", file |-> "npy", note |-> ""]
       IN  IF f2[1] * f2[2] # P
           THEN /\ o3dNpy' = <<<<P, 3>>>>
                /\ o3dLog' = o3dLog \o <<created(<<P, 3>>), error>>
           ELSE IF f3[1] * f3[2] * f3[3] # P
           THEN /\ o3dNpy' = <<<<P, 3>>, <<f2[1], f2[2], 3>>>>
                /\ o3dLog' = o3dLog \o <<created(<<P, 3>>),
                                         created(<<f2[1], f2[2], 3>>), error>>
           ELSE /\ o3dNpy' = <<<<P, 3>>, <<f2[1], f2[2], 3>>,
                               <<f3[1], f3[2], f3[3], 3>>>>
                /\ o3dLog' = o3dLog \o <<created(<<P, 3>>),
                                         created(<<f2[1], f2[2], 3>>),
                                         created(<<f3[1], f3[2], f3[3], 3>>)>>
    /\ o3dPc' = "done"
    /\ UNCHANGED <<o3dFn, o3dIdx, nPoints, hasColors, o3dFiles, o3dAttempts,
                   mtlOpen>>

\* One iteration of the loop of generate_mesh_files, up to the OBJ branch;
\* Open3D may write the material file beside an OBJ file itself.
WriteMesh ==
    /\ UNCHANGED notO3d
    /\ o3dFn = "generate_mesh_files"
    /\ o3dPc = "loop"
    /\ \E out \in WriteOutcomes :
       \E libMtl \in IF out = "ok" /\ MeshFormats[o3dIdx].format = "obj"
                     THEN BOOLEAN ELSE {FALSE} :
          LET f == MeshFormats[o3dIdx]
              next == AfterIteration(MeshFormats, o3dIdx, out # "ok")
              written == AfterWrite(o3dFiles, f.filename, out)
          IN  /\ o3dAttempts' = Append(o3dAttempts,
                                       [format |-> f.format, outcome |-> out])
              /\ o3dFiles' = IF libMtl THEN [written EXCEPT ![MtlPath] = "complete"]
                                       ELSE written
              /\ o3dLog' = Append(o3dLog, ReportLine(out, f.filename))
              /\ IF out = "ok" /\ f.format = "obj"
                 THEN o3dPc' = "mtl_check" /\ o3dIdx' = o3dIdx
                 ELSE /\ o3dIdx' = next.idx
                      /\ o3dPc' = IF next.pc = "end" THEN "done" ELSE next.pc
    /\ UNCHANGED <<o3dFn, nPoints, hasColors, o3dNpy, mtlOpen>>

\* if os.path.exists(mtl_path): print(... (material file)); else
\* create_mtl_file(mtl_path, mesh), which returns at once for a mesh without
\* vertex colors, and print(... (generated material file))
MtlCheck ==
    /\ UNCHANGED notO3d
    /\ o3dPc = "mtl_check"
    /\ LET next == AfterIteration(MeshFormats, o3dIdx, FALSE)
           line(n) == [mark |-> "created", file |-> MtlPath, note |-> n]
       IN  IF o3dFiles[MtlPath] # "absent"
           THEN /\ o3dLog' = Append(o3dLog, line("material file"))
                /\ o3dIdx' = next.idx
                /\ o3dPc' = IF next.pc = "end" THEN "done" ELSE next.pc
           ELSE IF ~hasColors
           THEN /\ o3dLog' = Append(o3dLog, line("generated material file"))
                /\ o3dIdx' = next.idx
                /\ o3dPc' = IF next.pc = "end" THEN "done" ELSE next.pc
           ELSE /\ o3dPc' = "mtl_open"
                /\ UNCHANGED <<o3dLog, o3dIdx>>
    /\ UNCHANGED <<o3dFn, nPoints, hasColors, o3dFiles, o3dNpy, o3dAttempts,
                   mtlOpen>>

\* create_mtl_file: with open(mtl_path, 'w') as f; an OSError of open is
\* caught by the loop's except clause, which reports the OBJ file
MtlOpen ==
    /\ UNCHANGED notO3d
    /\ o3dPc = "mtl_open"
    /\ \E io \in {"ok", "raise"} :
          LET next == AfterIteration(MeshFormats, o3dIdx, io = "raise")
          IN  IF io = "ok"
              THEN /\ mtlOpen' = TRUE
                   /\ o3dFiles' = [o3dFiles EXCEPT ![MtlPath] = "partial"]
                   /\ o3dPc' = "mtl_write"
                   /\ UNCHANGED <<o3dLog, o3dIdx>>
              ELSE /\ o3dLog' = Append(o3dLog,
                                       ReportLine("raise", MeshFormats[o3dIdx].filename))
                   /\ o3dIdx' = next.idx
                   /\ o3dPc' = IF next.pc = "end" THEN "done" ELSE next.pc
                   /\ UNCHANGED <<mtlOpen, o3dFiles>>
    /\ UNCHANGED <<o3dFn, nPoints, hasColors, o3dNpy, o3dAttempts>>

\* create_mtl_file: the four f.write calls and the end of the with block,
\* which closes f also when a write raises; then the caller's print
MtlWrite ==
    /\ UNCHANGED notO3d
    /\ o3dPc = "mtl_write"
    /\ \E io \in {"ok", "raise"} :
          LET next == AfterIteration(MeshFormats, o3dIdx, io = "raise")
          IN  /\ mtlOpen' = WithExit(io = "raise")
              /\ o3dFiles' = [o3dFiles EXCEPT ![MtlPath] =
                                 IF io = "ok" THEN "complete" ELSE "partial"]
              /\ o3dLog' = Append(o3dLog,
                    IF io = "ok"
                    THEN [mark |-> "created", file |-> MtlPath,
                          note |-> "generated material file"]
                    ELSE ReportLine("raise", MeshFormats[o3dIdx].filename))
              /\ o3dIdx' = next.idx
              /\ o3dPc' = IF next.pc = "end" THEN "done" ELSE next.pc
    /\ UNCHANGED <<o3dFn, nPoints, hasColors, o3dNpy, o3dAttempts>>

\* main's point cloud has 50 * 25 points
SamplePointCount == 1250

O3dInit ==
    /\ o3dPc = "loop"
    /\ o3dFn \in {"generate_point_cloud_files", "generate_mesh_files"}
    /\ o3dIdx = 1
    /\ nPoints \in IF o3dFn = "generate_point_cloud_files"
                   THEN (0..MaxPoints) \cup {SamplePointCount} ELSE {0}
    /\ hasColors \in IF o3dFn = "generate_mesh_files" THEN BOOLEAN ELSE {FALSE}
    /\ \E mtl \in IF o3dFn = "generate_mesh_files"
                  THEN {"absent", "complete"} ELSE {"absent"} :
          o3dFiles = [n \in O3dFileNames |-> IF n = MtlPath THEN mtl ELSE "absent"]
    /\ o3dNpy = <<>>
    /\ o3dLog = <<>>
    /\ o3dAttempts = <<>>
    /\ mtlOpen = FALSE

O3dNext ==
    \/ WritePointCloud
    \/ ExportNpy
    \/ WriteMesh
    \/ MtlCheck
    \/ MtlOpen
    \/ MtlWrite

-----------------------------------------------------------------------------
(* create_malformed_stl.py: the three ASCII STL generators *)

\* `content` of create_malformed_ascii_stl, line by line (the last line has no newline)
MalformedContent ==
    << "solid malformed_test",
       "  facet normal 0.0 0.0 1.0",
       "    outer loop",
       "      vertex 0.0 0.0 0.0",
       "      vertex 1.0 0.0 0.0",
       "      vertex 0.5 0.866 0.0",
       "    endloop",
       "  endfacet",
       "  ",
       "  facet normal 0.577 0.577 0.577",
       "    outer loop",
       "      vertex 1.0 0.0 0.0",
       "      vertex 1.0 1.0 0.0",
       "      vertex 1.0 0.5 0.866",
       "    endloop",
       "  endfacet",
       "  ",
       "  // This facet has extra whitespace and comments",
       "  facet normal -1.0 0.0 0.0  ",
       "    outer loop  ",
       "      vertex 0.0 0.0 0.0     ",
       "      vertex 0.0 0.866 0.5   ",
       "      vertex 0.0 1.0 0.0     ",
       "    endloop    ",
       "  endfacet  ",
       "endsolid malformed_test" >>

\* `content` of create_large_coordinates_stl, line by line (the last line has no newline)
LargeCoordinatesContent ==
    << "solid large_coordinates",
       "  facet normal 0.0 0.0 1.0",
       "    outer loop",
       "      vertex 1000000.0 2000000.0 3000000.0",
       "      vertex 1000001.0 2000000.0 3000000.0",
       "      vertex 1000000.5 2000000.866 3000000.0",
       "    endloop",
       "  endfacet",
       "  facet normal 0.0 0.0 -1.0",
       "    outer loop",
       "      vertex -999999.0 -1999999.0 -2999999.0",
       "      vertex -999998.5 -1999999.866 -2999999.0",
       "      vertex -999998.0 -1999999.0 -2999999.0",
       "    endloop",
       "  endfacet",
       "endsolid large_coordinates" >>

\* `content` of create_precision_test_stl, line by line (the last line has no newline)
PrecisionContent ==
    << "solid precision_test",
       "  facet normal 0.123456789 0.987654321 0.555555555",
       "    outer loop",
       "      vertex 0.123456789012345 0.987654321098765 0.111111111111111",
       "      vertex 0.234567890123456 0.876543210987654 0.222222222222222",
       "      vertex 0.345678901234567 0.765432109876543 0.333333333333333",
       "    endloop",
       "  endfacet",
       "  facet normal -0.707106781186547 0.707106781186547 0.0",
       "    outer loop",
       "      vertex 0.0 0.0 0.0",
       "      vertex 0.707106781186547 0.707106781186547 0.0",
       "      vertex 0.0 1.41421356237309 0.0",
       "    endloop",
       "  endfacet",
       "endsolid precision_test" >>

AsciiGenerators ==
    {"create_malformed_ascii_stl", "create_large_coordinates_stl",
     "create_precision_test_stl"}

\* The `content` of the generator fn
AsciiContent(fn) ==
    IF fn = "create_malformed_ascii_stl" THEN MalformedContent
    ELSE IF fn = "create_large_coordinates_stl" THEN LargeCoordinatesContent
    ELSE PrecisionContent

\* with open("test_....stl", "w") as f
AsciiOpenFile ==
    /\ UNCHANGED notAscii
    /\ asciiPc = "start"
    /\ asciiOpen' = TRUE
    /\ asciiFile' = <<>>
    /\ asciiPc' = "write"
    /\ UNCHANGED asciiFn

\* f.write(content)
AsciiWrite ==
    /\ UNCHANGED notAscii
    /\ asciiPc = "write"
    /\ asciiFile' = asciiFile \o AsciiContent(asciiFn)
    /\ asciiPc' = "close"
    /\ UNCHANGED <<asciiFn, asciiOpen>>

\* The with block is left normally: f is closed and the generator returns.
AsciiClose ==
    /\ UNCHANGED notAscii
    /\ asciiPc = "close"
    /\ asciiOpen' = WithExit(FALSE)
    /\ asciiPc' = "done"
    /\ UNCHANGED <<asciiFn, asciiFile>>

\* An OSError of open(), of f.write or of the flush at the end of the
\* block; a failed write may have left a part of the content in the file.
AsciiIOError ==
    /\ UNCHANGED notAscii
    /\ asciiPc \in {"start", "write", "close"}
    /\ asciiOpen' = IF asciiPc = "start" THEN asciiOpen ELSE WithExit(TRUE)
    /\ \E n \in IF asciiPc = "write" THEN 0..Len(AsciiContent(asciiFn)) ELSE {0} :
          asciiFile' = asciiFile \o SubSeq(AsciiContent(asciiFn), 1, n)
    /\ asciiPc' = "io_error"
    /\ UNCHANGED asciiFn

AsciiInit ==
    /\ asciiPc = "start"
    /\ asciiFn \in AsciiGenerators
    /\ asciiFile = <<>>
    /\ asciiOpen = FALSE

AsciiNext ==
    \/ AsciiOpenFile
    \/ AsciiWrite
    \/ AsciiClose
    \/ AsciiIOError

-----------------------------------------------------------------------------
(* create_test_stl.py: create_subdivided_sphere *)

\* phi = (1.0 + math.sqrt(5.0)) / 2.0, in thousandths
Phi == 1618

\* The twelve vertices of the icosahedron before they are normalised
IcosahedronVertices ==
    << Vec(-1000, Phi, 0), Vec(1000, Phi, 0), Vec(-1000, -Phi, 0),
       Vec(1000, -Phi, 0),
       Vec(0, -1000, Phi), Vec(0, 1000, Phi), Vec(0, -1000, -Phi),
       Vec(0, 1000, -Phi),
       Vec(Phi, 0, -1000), Vec(Phi, 0, 1000), Vec(-Phi, 0, -1000),
       Vec(-Phi, 0, 1000) >>

\* The twenty faces of the icosahedron (0-based vertex indices)
IcosahedronFaces ==
    << <<0, 11, 5>>, <<0, 5, 1>>, <<0, 1, 7>>, <<0, 7, 10>>, <<0, 10, 11>>,
       <<1, 5, 9>>, <<5, 11, 4>>, <<11, 10, 2>>, <<10, 7, 6>>, <<7, 1, 8>>,
       <<3, 9, 4>>, <<3, 4, 2>>, <<3, 2, 6>>, <<3, 6, 8>>, <<3, 8, 9>>,
       <<4, 9, 5>>, <<2, 4, 11>>, <<6, 2, 10>>, <<8, 6, 7>>, <<9, 8, 1>> >>

\* [v[0]/length * r, v[1]/length * r, v[2]/length * r] with
\* length = sqrt(v[0]**2 + v[1]**2 + v[2]**2); the length is taken in
\* eighths of a thousandth
Normalize(v, r) ==
    LET length8 == Isqrt(64 * (v[1] * v[1] + v[2] * v[2] + v[3] * v[3]))
    IN  Vec(RoundDiv(v[1] * r * 8, length8), RoundDiv(v[2] * r * 8, length8),
            RoundDiv(v[3] * r * 8, length8))

\* The midpoint of two vertices pushed out to the sphere; the midpoint
\* (v1 + v2) / 2 and the sum v1 + v2 have the same direction
MiddleVertex(v1, v2, r) ==
    Normalize(Vec(v1[1] + v2[1], v1[2] + v2[2], v1[3] + v2[3]), r)

\* A key that tells the two directions of an edge apart
EdgeKey_Directed(v1_idx, v2_idx) == <<v1_idx, v2_idx>>

\* key = tuple(sorted([v1_idx, v2_idx]))
EdgeKey(v1_idx, v2_idx) == <<Min(v1_idx, v2_idx), Max(v1_idx, v2_idx)>>

\* get_middle_vertex(v1_idx, v2_idx) on the lists `vertices` and
\* `edge_vertices` as they are at the call: the index returned and the two
\* lists after the call
get_middle_vertex(verts, edges, r, v1_idx, v2_idx) ==
    LET key == EdgeKey(v1_idx, v2_idx)
    IN  IF key \in DOMAIN edges
        THEN [index |-> edges[key], vertices |-> verts, edge_vertices |-> edges]
        ELSE [index |-> Len(verts),
              vertices |-> Append(verts, MiddleVertex(verts[v1_idx + 1],
                                                      verts[v2_idx + 1], r)),
              edge_vertices |-> edges @@ (key :> Len(verts))]

\* The dict {}
EmptyDict == [key \in {} |-> 0]

\* The icosahedron: the vertices normalised to the sphere, and the faces
SphIcosahedron ==
    /\ UNCHANGED notSph
    /\ sphPc = "start"
    /\ sphVertices' = [i \in 1..Len(IcosahedronVertices) |->
                          Normalize(IcosahedronVertices[i], radius)]
    /\ sphFaces' = IcosahedronFaces
    /\ sphRound' = 0
    /\ sphPc' = "round"
    /\ UNCHANGED <<radius, subdivisions, new_faces, edge_vertices, sphFaceIdx,
                   sphTriangles>>

\* for _ in range(subdivisions): new_faces = []; edge_vertices = {}
SphBeginRound ==
    /\ UNCHANGED notSph
    /\ sphPc = "round"
    /\ sphRound < subdivisions
    /\ new_faces' = <<>>
    /\ edge_vertices' = EmptyDict
    /\ sphFaceIdx' = 0
    /\ sphPc' = "faces"
    /\ UNCHANGED <<radius, subdivisions, sphVertices, sphFaces, sphRound,
                   sphTriangles>>

\* for face in faces: the three get_middle_vertex calls, in this order, and
\* new_faces.extend([[v1, a, c], [v2, b, a], [v3, c, b], [a, b, c]])
SphSubdivideFace ==
    /\ UNCHANGED notSph
    /\ sphPc = "faces"
    /\ sphFaceIdx < Len(sphFaces)
    /\ LET face == sphFaces[sphFaceIdx + 1]
           v1 == face[1]
           v2 == face[2]
           v3 == face[3]
           a == get_middle_vertex(sphVertices, edge_vertices, radius, v1, v2)
           b == get_middle_vertex(a.vertices, a.edge_vertices, radius, v2, v3)
           c == get_middle_vertex(b.vertices, b.edge_vertices, radius, v3, v1)
       IN  /\ sphVertices' = c.vertices
           /\ edge_vertices' = c.edge_vertices
           /\ new_faces' = new_faces \o << <<v1, a.index, c.index>>,
                                           <<v2, b.index, a.index>>,
                                           <<v3, c.index, b.index>>,
                                           <<a.index, b.index, c.index>> >>
    /\ sphFaceIdx' = sphFaceIdx + 1
    /\ UNCHANGED <<sphPc, radius, subdivisions, sphFaces, sphRound,
                   sphTriangles>>

\* faces = new_faces, at the end of a round
SphEndRound ==
    /\ UNCHANGED notSph
    /\ sphPc = "faces"
    /\ sphFaceIdx = Len(sphFaces)
    /\ sphFaces' = new_faces
    /\ sphRound' = sphRound + 1
    /\ sphPc' = "round"
    /\ UNCHANGED <<radius, subdivisions, sphVertices, new_faces, edge_vertices,
                   sphFaceIdx, sphTriangles>>

\* The faces become triangles with their normals; no 'color' key
SphConvert ==
    /\ UNCHANGED notSph
    /\ sphPc = "round"
    /\ sphRound = subdivisions
    /\ sphTriangles' =
          [k \in 1..Len(sphFaces) |->
              LET v1 == sphVertices[sphFaces[k][1] + 1]
                  v2 == sphVertices[sphFaces[k][2] + 1]
                  v3 == sphVertices[sphFaces[k][3] + 1]
              IN  Triangle(calculate_normal(v1, v2, v3), <<v1, v2, v3>>, NoColor)]
    /\ sphPc' = "done"
    /\ UNCHANGED <<radius, subdivisions, sphVertices, sphFaces, new_faces,
                   edge_vertices, sphRound, sphFaceIdx>>

\* The defaults radius=1.0, subdivisions=2 and main's call
\* create_subdivided_sphere(radius=1.5, subdivisions=3)
SphDefaultArgs == <<1000, 2>>
SphMainArgs == <<1500, 3>>

SphInputs ==
    {<<r, sub>> : r \in {SphDefaultArgs[1], SphMainArgs[1]},
                  sub \in 0..MaxSubdivisions}
    \cup {SphDefaultArgs, SphMainArgs}

SphInit ==
    /\ sphPc = "start"
    /\ \E args \in SphInputs : radius = args[1] /\ subdivisions = args[2]
    /\ sphVertices = <<>>
    /\ sphFaces = <<>>
    /\ new_faces = <<>>
    /\ edge_vertices = EmptyDict
    /\ sphRound = 0
    /\ sphFaceIdx = 0
    /\ sphTriangles = <<>>

SphNext ==
    \/ SphIcosahedron
    \/ SphBeginRound
    \/ SphSubdivideFace
    \/ SphEndRound
    \/ SphConvert

-----------------------------------------------------------------------------
(* create_test_png.py: create_test_depth_png *)

\* width, height = 100, 100
PngWidth == 100
PngHeight == 100

\* A value stored in a np.uint16 / np.uint8 element
ToUint16(v) == v % 65536
ToUint8(v) == v % 256

\* The array that the two loops `for y in range(height): for x in
\* range(width)` fill with base + (span * (x + y)) // (width + height)
Gradient(base, span) ==
    [y \in 0..(PngHeight - 1) |->
        [x \in 0..(PngWidth - 1) |->
            ToUint16(base + (span * (x + y)) \div (PngWidth + PngHeight))]]

\* A block of one pixel
InvalidBlock_OnePixel(i, j) == {<<i, j>>}

\* The pixels <<y, x>> of the slice [i:i+2, j:j+2] (a slice stops at the
\* edge of the array)
InvalidBlock(i, j) ==
    {<<y, x>> : y \in i..Min(i + 1, PngHeight - 1),
                x \in j..Min(j + 1, PngWidth - 1)}

\* The step of range(0, height, 10) and range(0, width, 10)
BlockStep == 10

PngFileNames ==
    {"test_depth_16bit_mm.png", "test_disparity_256.png",
     "test_depth_meters_1000.png", "test_depth_8bit.png",
     "test_depth_with_invalid.png"}

\* 1. depth_mm: the gradient from 500 mm
FillDepthMm ==
    /\ UNCHANGED notPng
    /\ pngPc = "start"
    /\ depth_mm' = Gradient(500, 4500)
    /\ pngPc' = "save_mm"
    /\ UNCHANGED <<disparity_raw, depth_m_scaled, depth_8bit,
                   depth_with_invalid, pngI, pngJ, pngFiles>>

\* Image.fromarray(depth_mm, mode='I;16').save(...)
SaveDepthMm ==
    /\ UNCHANGED notPng
    /\ pngPc = "save_mm"
    /\ pngFiles' = [pngFiles EXCEPT !["test_depth_16bit_mm.png"] = depth_mm]
    /\ pngPc' = "disparity"
    /\ UNCHANGED <<depth_mm, disparity_raw, depth_m_scaled, depth_8bit,
                   depth_with_invalid, pngI, pngJ>>

\* 2. disparity_raw (values to be divided by 256) and its image
MakeDisparityRaw ==
    /\ UNCHANGED notPng
    /\ pngPc = "disparity"
    /\ disparity_raw' = Gradient(256, 1000)
    /\ pngFiles' = [pngFiles EXCEPT
                       !["test_disparity_256.png"] = Gradient(256, 1000)]
    /\ pngPc' = "meters"
    /\ UNCHANGED <<depth_mm, depth_m_scaled, depth_8bit, depth_with_invalid,
                   pngI, pngJ>>

\* 3. depth_m_scaled (metres times 1000) and its image
MakeDepthMeters ==
    /\ UNCHANGED notPng
    /\ pngPc = "meters"
    /\ depth_m_scaled' = Gradient(500, 4500)
    /\ pngFiles' = [pngFiles EXCEPT
                       !["test_depth_meters_1000.png"] = Gradient(500, 4500)]
    /\ pngPc' = "eight_bit"
    /\ UNCHANGED <<depth_mm, disparity_raw, depth_8bit, depth_with_invalid,
                   pngI, pngJ>>

\* 4. depth_8bit = (depth_mm / 256).astype(np.uint8) and its image
MakeDepth8bit ==
    /\ UNCHANGED notPng
    /\ pngPc = "eight_bit"
    /\ LET eight == [y \in DOMAIN depth_mm |->
                        [x \in DOMAIN depth_mm[y] |->
                            ToUint8(depth_mm[y][x] \div 256)]]
       IN  /\ depth_8bit' = eight
           /\ pngFiles' = [pngFiles EXCEPT !["test_depth_8bit.png"] = eight]
    /\ pngPc' = "copy"
    /\ UNCHANGED <<depth_mm, disparity_raw, depth_m_scaled,
                   depth_with_invalid, pngI, pngJ>>

\* 5. depth_with_invalid = depth_mm.copy(); the loops start at i = 0, j = 0
CopyDepth ==
    /\ UNCHANGED notPng
    /\ pngPc = "copy"
    /\ depth_with_invalid' = depth_mm
    /\ pngI' = 0
    /\ pngJ' = 0
    /\ pngPc' = IF PngHeight > 0 /\ PngWidth > 0 THEN "blocks" ELSE "save_invalid"
    /\ UNCHANGED <<depth_mm, disparity_raw, depth_m_scaled, depth_8bit,
                   pngFiles>>

\* depth_with_invalid[i:i+2, j:j+2] = 0, then the next j, or the next i
\* with j back at 0, or the end of the loops
ZeroBlock ==
    /\ UNCHANGED notPng
    /\ pngPc = "blocks"
    /\ depth_with_invalid' =
          [y \in DOMAIN depth_with_invalid |->
              [x \in DOMAIN depth_with_invalid[y] |->
                  IF <<y, x>> \in InvalidBlock(pngI, pngJ)
                  THEN 0 ELSE depth_with_invalid[y][x]]]
    /\ IF pngJ + BlockStep < PngWidth
       THEN pngJ' = pngJ + BlockStep /\ UNCHANGED <<pngI, pngPc>>
       ELSE IF pngI + BlockStep < PngHeight
       THEN pngJ' = 0 /\ pngI' = pngI + BlockStep /\ UNCHANGED pngPc
       ELSE pngPc' = "save_invalid" /\ UNCHANGED <<pngI, pngJ>>
    /\ UNCHANGED <<depth_mm, disparity_raw, depth_m_scaled, depth_8bit,
                   pngFiles>>

\* Image.fromarray(depth_with_invalid, mode='I;16').save(...)
SaveInvalid ==
    /\ UNCHANGED notPng
    /\ pngPc = "save_invalid"
    /\ pngFiles' = [pngFiles EXCEPT
                       !["test_depth_with_invalid.png"] = depth_with_invalid]
    /\ pngPc' = "done"
    /\ UNCHANGED <<depth_mm, disparity_raw, depth_m_scaled, depth_8bit,
                   depth_with_invalid, pngI, pngJ>>

PngInit ==
    /\ pngPc = "start"
    /\ depth_mm = <<>>
    /\ disparity_raw = <<>>
    /\ depth_m_scaled = <<>>
    /\ depth_8bit = <<>>
    /\ depth_with_invalid = <<>>
    /\ pngI = 0
    /\ pngJ = 0
    /\ pngFiles = [n \in PngFileNames |-> Absent]

PngNext ==
    \/ FillDepthMm
    \/ SaveDepthMm
    \/ MakeDisparityRaw
    \/ MakeDepthMeters
    \/ MakeDepth8bit
    \/ CopyDepth
    \/ ZeroBlock
    \/ SaveInvalid

-----------------------------------------------------------------------------
(* Specifications: one script runs, the others have not started *)

StlIdle ==
    /\ stlPc = "idle" /\ triangles = <<>> /\ header = <<>> /\ stlFile = <<>>
    /\ stlOpen = FALSE /\ stlIdx = 0 /\ stlVtx = 0

PfmIdle ==
    /\ pfmPc = "idle" /\ width = 0 /\ height = 0 /\ depths = <<>>
    /\ pfmFile = <<>> /\ pfmOpen = FALSE /\ pfmRow = 0 /\ pfmX = 0
    /\ pfmOrder = <<>>

NpyIdle ==
    /\ npyPc = "idle" /\ depth_data = <<>> /\ disparity_data = <<>>
    /\ npyFiles = <<>>

O3dIdle ==
    /\ o3dPc = "idle" /\ o3dFn = "" /\ o3dIdx = 0 /\ nPoints = 0
    /\ hasColors = FALSE /\ o3dFiles = <<>> /\ o3dNpy = <<>> /\ o3dLog = <<>>
    /\ o3dAttempts = <<>> /\ mtlOpen = FALSE

PngIdle ==
    /\ pngPc = "idle" /\ depth_mm = <<>> /\ disparity_raw = <<>>
    /\ depth_m_scaled = <<>> /\ depth_8bit = <<>> /\ depth_with_invalid = <<>>
    /\ pngI = 0 /\ pngJ = 0 /\ pngFiles = <<>>

SphIdle ==
    /\ sphPc = "idle" /\ radius = 0 /\ subdivisions = 0 /\ sphVertices = <<>>
    /\ sphFaces = <<>> /\ new_faces = <<>> /\ edge_vertices = EmptyDict
    /\ sphRound = 0 /\ sphFaceIdx = 0 /\ sphTriangles = <<>>

FacIdle ==
    /\ facPc = "idle" /\ facFn = "" /\ facN = 0 /\ facP1 = 0 /\ facP2 = 0
    /\ facP3 = 0 /\ facRemaining = 0 /\ facSteps = 0

AsciiIdle ==
    /\ asciiPc = "idle" /\ asciiFn = "" /\ asciiFile = <<>>
    /\ asciiOpen = FALSE

StlStart == StlInit /\ PfmIdle /\ NpyIdle /\ O3dIdle /\ AsciiIdle /\ FacIdle
    /\ SphIdle /\ PngIdle
SpecStl == StlStart /\ [][StlNext]_vars

PfmStart == PfmInit /\ StlIdle /\ NpyIdle /\ O3dIdle /\ AsciiIdle /\ FacIdle
    /\ SphIdle /\ PngIdle
SpecPfm == PfmStart /\ [][PfmNext]_vars

NpyStart == NpyInit /\ StlIdle /\ PfmIdle /\ O3dIdle /\ AsciiIdle /\ FacIdle
    /\ SphIdle /\ PngIdle
SpecNpy == NpyStart /\ [][NpyNext]_vars

O3dStart == O3dInit /\ StlIdle /\ PfmIdle /\ NpyIdle /\ AsciiIdle /\ FacIdle
    /\ SphIdle /\ PngIdle
SpecO3d == O3dStart /\ [][O3dNext]_vars

AsciiStart == AsciiInit /\ StlIdle /\ PfmIdle /\ NpyIdle /\ O3dIdle /\ FacIdle
    /\ SphIdle /\ PngIdle

FacStart ==
    FacInit /\ StlIdle /\ PfmIdle /\ NpyIdle /\ O3dIdle /\ AsciiIdle
    /\ SphIdle /\ PngIdle
SpecFactors == FacStart /\ [][FacNext]_vars
\* The helper's statements are executed one after the other: a statement
\* that can run does run
SpecFactorsFair == SpecFactors /\ WF_vars(FacNext)

SphStart ==
    SphInit /\ StlIdle /\ PfmIdle /\ NpyIdle /\ O3dIdle /\ AsciiIdle
    /\ FacIdle /\ PngIdle
SpecSphere == SphStart /\ [][SphNext]_vars

PngStart ==
    PngInit /\ StlIdle /\ PfmIdle /\ NpyIdle /\ O3dIdle /\ AsciiIdle
    /\ FacIdle /\ SphIdle
SpecPng == PngStart /\ [][PngNext]_vars

\* The manual writers, one of them running, in an environment where open()
\* and the calls on an open file may fail with OSError
WritersStart == StlStart \/ PfmStart \/ O3dStart \/ AsciiStart
WritersNext ==
    \/ StlNext
    \/ StlIOError
    \/ PfmNext
    \/ PfmIOError
    \/ O3dNext
    \/ AsciiNext
SpecWriters == WritersStart /\ [][WritersNext]_vars

-----------------------------------------------------------------------------
(* Reading a binary STL stream back (the decoder the properties refer to) *)

\* little-endian unsigned integer held by the bytes bs
RECURSIVE LittleEndian(_)
LittleEndian(bs) == IF bs = <<>> THEN 0 ELSE Head(bs) + 256 * LittleEndian(Tail(bs))

\* The single-precision float <<sign, biased exponent, fraction>> held by
\* four little-endian bytes, and its value in thousandths
Float32OfBytes(bs) ==
    <<bs[4] \div 128,
      2 * (bs[4] % 128) + (bs[3] \div 128),
      (bs[3] % 128) * 65536 + bs[2] * 256 + bs[1]>>
UnpackF(bs) == Float32Value(Float32OfBytes(bs))

UnpackFFF(bs) ==
    <<UnpackF(SubSeq(bs, 1, 4)), UnpackF(SubSeq(bs, 5, 8)), UnpackF(SubSeq(bs, 9, 12))>>

\* The k-th 50-byte record of the stream and its fields
StlRecord(k) == SubSeq(stlFile, 84 + 50 * (k - 1) + 1, 84 + 50 * k)
RecordNormal(k) == UnpackFFF(SubSeq(StlRecord(k), 1, 12))
RecordVertex(k, j) == UnpackFFF(SubSeq(StlRecord(k), 12 * j + 1, 12 * j + 12))
RecordTrailer(k) == SubSeq(StlRecord(k), 49, 50)
StlCount == LittleEndian(SubSeq(stlFile, 81, 84))

\* The triangles whose record is complete
StlCompleted == IF stlIdx = 0 THEN 0 ELSE stlIdx - 1

StlTerminated == stlPc \in {"done", "raised"}

\* The input is one of the data model: every color, where there is one, has
\* its three channels in 0..255
StlInputInModel == \A k \in 1..Len(triangles) : ColorInRange(triangles[k].color)

-----------------------------------------------------------------------------
(* Properties of write_binary_stl *)

\* C1: for triangles of the data model (with or without a color) and any
\* header string, write_binary_stl returns and the stream it produced is
\* exactly 80 + 4 + 50*n bytes long: 80 bytes once the header is written,
\* 84 once the count is, 50 more for each triangle; the tetrahedron gives
\* 284 bytes and the colored cube 684.
C1_StreamSize ==
    /\ stlPc = "count" => Len(stlFile) = 80
    /\ stlPc = "normal" => Len(stlFile) = 84 + 50 * (stlIdx - 1)
    /\ (StlTerminated /\ StlInputInModel) =>
          /\ stlPc = "done"
          /\ Len(stlFile) = 80 + 4 + 50 * Len(triangles)
          /\ triangles = create_tetrahedron => Len(stlFile) = 284
          /\ triangles = create_colored_cube => Len(stlFile) = 684

C1_Witness ==
    /\ stlPc = "done"
    /\ Len(Utf8Encode(header)) > 80
    /\ Len(triangles) = 2
    /\ triangles[1].color = NoColor
    /\ triangles[2].color # NoColor
    /\ Len(stlFile) = 184

\* The RGB565 value of a color with channels in 0..255
Rgb565(c) ==
    ((c[1] * 31) \div 255) * 2048 + ((c[2] * 63) \div 255) * 32
    + ((c[3] * 31) \div 255)

\* C2: the trailer of every written triangle is 0 when the triangle has no
\* color, and is the little-endian 16-bit value
\* (floor(r*31/255) << 11) | (floor(g*63/255) << 5) | floor(b*31/255)
\* when it has a color with channels in 0..255; (255, 0, 0) gives 0xF800.
C2_TrailerRgb565 ==
    \A k \in 1..StlCompleted :
        LET c == triangles[k].color
        IN  /\ c = NoColor => RecordTrailer(k) = <<0, 0>>
            /\ (c # NoColor /\ ColorInRange(c)) =>
                  LittleEndian(RecordTrailer(k)) = Rgb565(c)
            /\ c = <<255, 0, 0>> => RecordTrailer(k) = <<0, 248>>

C2_Witness ==
    /\ stlPc = "done"
    /\ \E k \in 1..Len(triangles) :
          triangles[k].color = <<255, 0, 0>> /\ RecordTrailer(k) = <<0, 248>>
    /\ \E k \in 1..Len(triangles) :
          triangles[k].color = <<9, 133, 200>>
          /\ LittleEndian(RecordTrailer(k)) = 3096

\* C3: decoding the stream gives back the input: the count field is the
\* number of input triangles, and the k-th record holds the k-th triangle's
\* normal, then its three vertices in input order; for an input of the data
\* model the writer returns with every triangle's record written.
C3_RoundTrip ==
    /\ Len(stlFile) >= 84 => StlCount = Len(triangles)
    /\ \A k \in 1..StlCompleted :
          /\ RecordNormal(k) = triangles[k].normal
          /\ \A j \in 1..3 : RecordVertex(k, j) = triangles[k].vertices[j]
    /\ (StlTerminated /\ StlInputInModel) =>
          stlPc = "done" /\ StlCompleted = Len(triangles)

C3_Witness ==
    /\ stlPc = "done"
    /\ Len(triangles) = 2
    /\ triangles[1].vertices # triangles[2].vertices
    /\ RecordVertex(1, 1) = <<-1000, 2000, 289>>
    /\ RecordVertex(1, 3) = <<0, -2000, 1500>>
    /\ RecordNormal(2) = <<0, 0, 1000>>

\* C4 (as claimed): no color, whatever its channels, makes the writer fail.
C4_NeverRaises == stlPc # "raised"

\* C5: the stream of the colored cube has 12 records, each of a triangle
\* that carries a color, and each of the 12 trailers is nonzero.
C5_CubeTrailers ==
    (triangles = create_colored_cube /\ StlTerminated) =>
        /\ stlPc = "done"
        /\ StlCount = 12
        /\ Len(stlFile) = 84 + 12 * 50
        /\ \A k \in 1..12 :
              triangles[k].color # NoColor /\ RecordTrailer(k) # <<0, 0>>

C5_Witness ==
    /\ triangles = create_colored_cube
    /\ stlPc = "done"
    /\ RecordTrailer(1) = <<0, 248>>
    /\ RecordTrailer(12) # <<0, 0>>

-----------------------------------------------------------------------------
(* Reading a PFM stream back *)

\* The position of the n-th line feed of the stream (0 when there is none)
RECURSIVE LineFeed(_, _, _)
LineFeed(bs, n, from) ==
    IF from > Len(bs) THEN 0
    ELSE IF bs[from] = 10
         THEN IF n = 1 THEN from ELSE LineFeed(bs, n - 1, from + 1)
         ELSE LineFeed(bs, n, from + 1)

PfmHeaderComplete == LineFeed(pfmFile, 3, 1) > 0

\* The three header lines (without their line feeds) and the payload
PfmLine(n) ==
    SubSeq(pfmFile,
           (IF n = 1 THEN 0 ELSE LineFeed(pfmFile, n - 1, 1)) + 1,
           LineFeed(pfmFile, n, 1) - 1)
PfmPayload == SubSeq(pfmFile, LineFeed(pfmFile, 3, 1) + 1, Len(pfmFile))

\* The number a run of ASCII digits denotes (-1 when it is not such a run)
RECURSIVE ParseDecimal(_)
ParseDecimal(bs) ==
    IF bs = <<>> THEN -1
    ELSE LET d == bs[Len(bs)] - 48
             front == SubSeq(bs, 1, Len(bs) - 1)
         IN  IF d < 0 \/ d > 9 THEN -1
             ELSE IF front = <<>> THEN d
             ELSE IF ParseDecimal(front) < 0 THEN -1
             ELSE 10 * ParseDecimal(front) + d

\* The two fields of the dimension line, split at its first space
SpaceAt(bs) == IF \E i \in 1..Len(bs) : bs[i] = 32
               THEN CHOOSE i \in 1..Len(bs) :
                       bs[i] = 32 /\ \A j \in 1..(i - 1) : bs[j] # 32
               ELSE 0
PfmFirstDim == ParseDecimal(SubSeq(PfmLine(2), 1, SpaceAt(PfmLine(2)) - 1))
PfmSecondDim ==
    ParseDecimal(SubSeq(PfmLine(2), SpaceAt(PfmLine(2)) + 1, Len(PfmLine(2))))

\* The i-th sample of the payload (i from 0), in thousandths
PfmSample(i) == UnpackF(SubSeq(PfmPayload, 4 * i + 1, 4 * i + 4))

PfmClosed == pfmPc \in {"report", "done", "raised"}

-----------------------------------------------------------------------------
(* Properties of create_test_pfm *)

\* C6: the payload is the grid with its rows reversed: the i-th row written
\* is input row height-1-i, a row is written left to right, and once the
\* file is closed exactly width*height samples have been written, each grid
\* sample exactly once.
C6_RowsReversed ==
    /\ PfmHeaderComplete =>
          /\ Len(PfmPayload) = 4 * Len(pfmOrder)
          /\ \A n \in 0..(Len(pfmOrder) - 1) :
                LET y == height - 1 - (n \div width)
                    x == n % width
                IN  /\ pfmOrder[n + 1] = <<y, x>>
                    /\ PfmSample(n) = depths[y][x]
    /\ PfmClosed =>
          /\ Len(pfmOrder) = width * height
          /\ \A y \in 0..(height - 1) : \A x \in 0..(width - 1) :
                Cardinality({n \in 1..Len(pfmOrder) : pfmOrder[n] = <<y, x>>}) = 1

C6_Witness ==
    /\ pfmPc = "done"
    /\ width = 3 /\ height = 2
    /\ Len(PfmPayload) = 24
    /\ pfmOrder[1] = <<1, 0>> /\ pfmOrder[4] = <<0, 0>>
    /\ PfmSample(1) = 1500 /\ PfmSample(4) = 1000

\* C7: what has been written of the file starts with the three header
\* lines, in this order, before any sample: the magic line Pf, the
\* dimension line with the width first and the height second, and a scale
\* line with a negative number; in the closed file the two dimensions are
\* the number of samples of each row written and the number of rows written.
C7_HeaderLines ==
    /\ pfmOrder # <<>> => PfmHeaderComplete
    /\ PfmHeaderComplete =>
          /\ PfmLine(1) = <<80, 102>>
          /\ PfmFirstDim = width /\ PfmSecondDim = height
          /\ PfmLine(3)[1] = 45
          /\ ParseDecimal(SubSeq(PfmLine(3), 2, 2)) > 0
    /\ PfmClosed =>
          /\ PfmHeaderComplete
          /\ Len(PfmPayload) = 4 * PfmFirstDim * PfmSecondDim
          /\ \A y \in {pfmOrder[n][1] : n \in 1..Len(pfmOrder)} :
                Cardinality({n \in 1..Len(pfmOrder) : pfmOrder[n][1] = y})
                    = PfmFirstDim
          /\ PfmFirstDim > 0 =>
                Cardinality({pfmOrder[n][1] : n \in 1..Len(pfmOrder)})
                    = PfmSecondDim

C7_Witness ==
    /\ pfmPc = "done"
    /\ width = 3 /\ height = 2
    /\ PfmFirstDim = 3 /\ PfmSecondDim = 2
    /\ SubSeq(pfmFile, 1, 12) = <<80, 102, 10, 51, 32, 50, 10, 45, 49, 46, 48, 10>>
    /\ Len(pfmFile) = 36

-----------------------------------------------------------------------------
(* Properties of create_test_npy_files *)

\* A single-precision float is >= 0.1 (as a real number): it is positive and
\* its exponent is above -4, or is -4 with a significand m such that
\* m * 2^-27 >= 1/10
Float32AtLeastTenth(x) ==
    /\ x[1] = 0
    /\ \/ x[2] - 127 >= -3
       \/ x[2] - 127 = -4 /\ 10 * (8388608 + x[3]) >= 134217728

\* The samples of a saved array
ArraySamples(a) == UNION {{a[y][x] : x \in DOMAIN a[y]} : y \in DOMAIN a}

\* The depth arrays that have been saved
SavedDepthArrays ==
    {npyFiles[n] : n \in {m \in {"test_depth.npy", "test_depth_small.npy"} :
                            npyFiles[m] # Absent}}
    \cup (IF npyFiles["test_depth_with_params.npz"] # Absent
          THEN {npyFiles["test_depth_with_params.npz"].depth} ELSE {})

\* C8: whatever the noise, every sample of every saved depth array
\* (test_depth.npy, the depth entry of the npz, test_depth_small.npy) is
\* >= 0.1: the clamp comes after the noise, and from the clamp on no step
\* takes a sample of depth_data below the floor.
C8_DepthFloor ==
    /\ \A a \in SavedDepthArrays : \A v \in ArraySamples(a) : Float32AtLeastTenth(v)
    /\ npyPc = "astype" => \A v \in ArraySamples(depth_data) : v >= 100
    /\ npyPc \in {"save_depth", "disparity", "save_disparity", "save_npz",
                  "save_small", "report", "done"} =>
          \A v \in ArraySamples(depth_data) : Float32AtLeastTenth(v)

C8_Witness ==
    /\ npyPc = "done"
    /\ \E v \in ArraySamples(npyFiles["test_depth.npy"]) : v = Float32(100)
    /\ \E v \in ArraySamples(npyFiles["test_depth.npy"]) : v # Float32(100)
    /\ \E v \in ArraySamples(npyFiles["test_depth_small.npy"]) : v = Float32(100)
    /\ Cardinality(DOMAIN npyFiles["test_depth_small.npy"][0]) = 2
    /\ npyFiles["test_depth_with_params.npz"].depth = npyFiles["test_depth.npy"]

-----------------------------------------------------------------------------
(* Properties of the batch loops of generate_test_files.py *)

\* The lines printed about one file
LinesAbout(name) == {k \in 1..Len(o3dLog) : o3dLog[k].file = name}

\* The number of write calls the loop has made when it is at this position
O3dIterationsBegun ==
    IF o3dPc = "loop" THEN o3dIdx - 1
    ELSE IF o3dPc \in {"mtl_check", "mtl_open", "mtl_write"} THEN o3dIdx
    ELSE Len(FormatTable(o3dFn))

\* C10: in both batch loops the formats are attempted in table order, each
\* exactly once (no retry); a write that returns failure or raises is
\* reported by one line, the files written so far stay (a partial file
\* included, nothing is removed), the loop goes on to the next format, and
\* no exception leaves the function.
C10_BatchLoops ==
    LET table == FormatTable(o3dFn)
        n == Len(o3dAttempts)
    IN  /\ o3dPc # "raised"
        /\ n = O3dIterationsBegun
        /\ o3dPc \in {"npy", "done"} => n = Len(table)
        /\ \A k \in 1..n :
              LET out == o3dAttempts[k].outcome
                  name == table[k].filename
              IN  /\ o3dAttempts[k].format = table[k].format
                  /\ out = "false" =>
                        /\ Cardinality(LinesAbout(name)) = 1
                        /\ \A i \in LinesAbout(name) : o3dLog[i].mark = "failed"
                  /\ out \in {"raise", "raise_partial"} =>
                        /\ Cardinality(LinesAbout(name)) = 1
                        /\ \A i \in LinesAbout(name) : o3dLog[i].mark = "error"
                  /\ out = "ok" =>
                        /\ o3dFiles[name] = "complete"
                        /\ \E i \in LinesAbout(name) : o3dLog[i].mark = "created"
                  /\ out = "raise_partial" => o3dFiles[name] = "partial"
                  /\ out \in {"false", "raise"} => o3dFiles[name] = "absent"

C10_Witness ==
    /\ o3dFn = "generate_mesh_files"
    /\ o3dPc = "done"
    /\ [k \in 1..6 |-> o3dAttempts[k].outcome]
          = <<"raise_partial", "false", "ok", "raise", "ok", "ok">>
    /\ o3dFiles["sample_mesh.ply"] = "partial"
    /\ o3dFiles["sample_mesh.glb"] = "complete"
    /\ o3dLog[1].mark = "error" /\ o3dLog[2].mark = "failed"

-----------------------------------------------------------------------------
(* Properties of the file handles of the manual writers *)

\* Where each writer is once it has returned or raised
StlExited == stlPc \in {"done", "raised", "io_error"}
PfmExited == pfmPc \in {"report", "done", "raised", "io_error"}
MtlExited == o3dPc # "mtl_write"
AsciiExited == asciiPc \in {"done", "io_error"}

\* C11: every file opened by write_binary_stl, create_test_pfm,
\* create_mtl_file and the ASCII STL generators is closed on every exit
\* path: once the writer has returned or has raised (an OSError of any call
\* on the file, a struct.error in the middle of the triangle loop), the
\* handle it opened is no longer open; and a handle is open only while its
\* writer is inside the with block.
C11_HandlesClosed ==
    /\ StlExited => ~stlOpen
    /\ PfmExited => ~pfmOpen
    /\ MtlExited => ~mtlOpen
    /\ AsciiExited => ~asciiOpen
    /\ stlOpen => stlPc \in {"header", "count", "normal", "vertex",
                              "attribute", "close"}
    /\ pfmOpen => pfmPc \in {"magic", "dims", "scale", "rows", "close"}
    /\ asciiOpen => asciiPc \in {"write", "close"}

\* A packing error in the second triangle, after its 48 geometry bytes
C11_Witness ==
    /\ stlPc = "raised"
    /\ stlIdx = 2
    /\ Len(stlFile) = 84 + 50 + 48
    /\ ~stlOpen

-----------------------------------------------------------------------------
(* Properties of the factor helpers *)

FacReturned == facPc = "return"

\* C12: for every n >= 1, _choose_2d_factors(n) returns positive integers
\* with p1 * p2 = n and _choose_3d_factors(n) positive integers with
\* p1 * p2 * p3 = n, so the reshapes of generate_point_cloud_files to
\* [p1, p2, 3] and [p1, p2, p3, 3] keep the P points (the values returned
\* are the ones the .npy export reshapes with).
C12_FactorsMultiplyToN ==
    (FacReturned /\ facN >= 1) =>
        IF facFn = "_choose_2d_factors"
        THEN /\ facP1 >= 1 /\ facP2 >= 1
             /\ facP1 * facP2 = facN
             /\ _choose_2d_factors(facN) = <<facP1, facP2>>
        ELSE /\ facP1 >= 1 /\ facP2 >= 1 /\ facP3 >= 1
             /\ facP1 * facP2 * facP3 = facN
             /\ _choose_3d_factors(facN) = <<facP1, facP2, facP3>>

\* Both loops of _choose_3d_factors have counted down: 38 = 2 * 1 * 19
C12_Witness ==
    /\ FacReturned
    /\ facFn = "_choose_3d_factors"
    /\ facN = 38
    /\ <<facP1, facP2, facP3>> = <<2, 1, 19>>
    /\ facSteps = 4

-----------------------------------------------------------------------------
(* Properties of create_subdivided_sphere *)

Pow4(k) == Pow2(2 * k)

\* The three edges of a face, in the order of the get_middle_vertex calls,
\* each as the set of its two end points
FaceEdges(face) ==
    << {face[1], face[2]}, {face[2], face[3]}, {face[3], face[1]} >>

\* The midpoint index that the k-th face (1-based) of the round was given
\* for its j-th edge: a, b, c are the second entries of its first three new
\* faces [v1, a, c], [v2, b, a], [v3, c, b]
MidpointUsed(k, j) ==
    IF j = 1 THEN new_faces[4 * (k - 1) + 1][2]
    ELSE IF j = 2 THEN new_faces[4 * (k - 1) + 2][2]
    ELSE new_faces[4 * (k - 1) + 3][2]

IndicesExist(fs) ==
    \A k \in 1..Len(fs) : \A j \in 1..3 : fs[k][j] \in 0..(Len(sphVertices) - 1)

\* C14: every round of create_subdivided_sphere replaces each face by
\* exactly 4 faces, so there are 20 * 4^k faces after k rounds and
\* 20 * 4^subdivisions triangles are returned; within a round the midpoint of
\* an undirected edge is created at most once: get_middle_vertex gives the
\* same index for (a, b) and (b, a) without creating a vertex, two faces
\* that share an edge use the same midpoint index (so the vertices number
\* 10 * 4^k + 2 after k rounds), and every index of a face refers to an
\* existing vertex.
C14_SubdivisionCounts ==
    /\ sphPc \in {"round", "done"} =>
          /\ Len(sphFaces) = 20 * Pow4(sphRound)
          /\ Len(sphVertices) = 10 * Pow4(sphRound) + 2
    /\ sphPc = "done" =>
          /\ sphRound = subdivisions
          /\ Len(sphTriangles) = 20 * Pow4(subdivisions)
    /\ sphPc \in {"round", "faces", "done"} => IndicesExist(sphFaces)
    /\ sphPc = "faces" =>
          /\ Len(new_faces) = 4 * sphFaceIdx
          /\ IndicesExist(new_faces)
          /\ Len(sphVertices)
                = 10 * Pow4(sphRound) + 2 + Cardinality(DOMAIN edge_vertices)
          /\ \A k \in 1..sphFaceIdx : \A j \in 1..3 :
                LET x == sphFaces[k][j]
                    y == sphFaces[k][(j % 3) + 1]
                    xy == get_middle_vertex(sphVertices, edge_vertices, radius,
                                            x, y)
                    yx == get_middle_vertex(sphVertices, edge_vertices, radius,
                                            y, x)
                IN  /\ xy.index = yx.index
                    /\ xy.index = MidpointUsed(k, j)
                    /\ xy.vertices = sphVertices
                    /\ yx.vertices = sphVertices
          /\ sphFaceIdx >= 1 =>
                \A k \in 1..sphFaceIdx : \A i, j \in 1..3 :
                    FaceEdges(sphFaces[k])[i]
                        = FaceEdges(sphFaces[sphFaceIdx])[j]
                    => MidpointUsed(k, i) = MidpointUsed(sphFaceIdx, j)

\* main's sphere: three rounds, 1280 triangles on 642 vertices
C14_Witness ==
    /\ sphPc = "done"
    /\ subdivisions = 3
    /\ Len(sphTriangles) = 1280
    /\ Len(sphVertices) = 642

-----------------------------------------------------------------------------
(* Properties of create_test_depth_png *)

\* The millimetre value of pixel (y, x), as an unbounded integer
MillimetreValue(y, x) == 500 + (4500 * (x + y)) \div 200

\* The blocks the loops have zeroed when they are at (pngI, pngJ)
BlockDone(i, j) ==
    \/ pngPc \in {"save_invalid", "done"}
    \/ pngPc = "blocks" /\ (i < pngI \/ (i = pngI /\ j < pngJ))

\* C15: the image with invalid pixels differs from the 16-bit millimetre
\* depth map exactly on the 2x2 blocks anchored at the multiples of 10: a
\* pixel (y, x) of the 100x100 image saved is 0 if and only if y mod 10 < 2
\* and x mod 10 < 2, every other pixel is the millimetre value
\* 500 + (4500*(x+y)) div 200 that the depth map has there, and every value
\* written is the unwrapped value, below 2^16.  While the loops run, the
\* pixels zeroed are those of the blocks already passed.
C15_InvalidPixels ==
    /\ pngPc \in {"blocks", "save_invalid", "done"} =>
          \A y \in 0..99 : \A x \in 0..99 :
              /\ pngFiles["test_depth_16bit_mm.png"][y][x] = MillimetreValue(y, x)
              /\ MillimetreValue(y, x) \in 1..65535
              /\ depth_with_invalid[y][x] \in {0, MillimetreValue(y, x)}
              /\ depth_with_invalid[y][x] = 0 <=>
                    /\ y % 10 < 2 /\ x % 10 < 2
                    /\ BlockDone(y - (y % 10), x - (x % 10))
    /\ pngPc = "done" =>
          /\ DOMAIN pngFiles["test_depth_with_invalid.png"] = 0..99
          /\ \A y \in 0..99 :
                DOMAIN pngFiles["test_depth_with_invalid.png"][y] = 0..99
          /\ \A y \in 0..99 : \A x \in 0..99 :
                LET v == pngFiles["test_depth_with_invalid.png"][y][x]
                IN  /\ v = 0 <=> (y % 10 < 2 /\ x % 10 < 2)
                    /\ v # 0 => v = MillimetreValue(y, x)
                    /\ v # pngFiles["test_depth_16bit_mm.png"][y][x]
                          <=> (y % 10 < 2 /\ x % 10 < 2)

\* The image is saved: the last block is zeroed, its neighbours are not,
\* and the largest value is 4955
C15_Witness ==
    /\ pngPc = "done"
    /\ pngFiles["test_depth_with_invalid.png"][91][91] = 0
    /\ pngFiles["test_depth_with_invalid.png"][92][91] = 4617
    /\ pngFiles["test_depth_with_invalid.png"][99][99] = 4955

-----------------------------------------------------------------------------
(* Properties of the material file of generate_mesh_files *)

\* C13: whenever generate_mesh_files has printed a success line for the
\* material file (in the "material file" or the "generated material file"
\* form), an MTL file exists at the OBJ path with .mtl in place of .obj, for
\* every mesh, with or without vertex colors.
C13_MtlLineImpliesFile ==
    \A k \in LinesAbout(MtlPath) :
        o3dLog[k].mark = "created" => o3dFiles[MtlPath] # "absent"

\* C16: for every n >= 1 the pair of _choose_2d_factors(n) has
\* 1 <= p1 <= p2, and the count-down loop ends after finitely many
\* decrements with p1 >= 1: p1 stays in 1..round(sqrt(n)) while the loop
\* runs, the decrements are fewer than round(sqrt(n)), and the call
\* returns.
C16_OrderedAndTerminates ==
    (facFn = "_choose_2d_factors" /\ facN >= 1) =>
        /\ [](facPc = "loop1" =>
                 /\ facP1 >= 1
                 /\ facP1 + facSteps = RoundSqrt(facN))
        /\ [](FacReturned => 1 <= facP1 /\ facP1 <= facP2)
        /\ <>FacReturned

\* 7: the loop went from 3 down to 1, the pair is (1, 7)
C16_Witness ==
    /\ FacReturned
    /\ facFn = "_choose_2d_factors"
    /\ facN = 7
    /\ facSteps = 2
    /\ <<facP1, facP2>> = <<1, 7>>

====
